---- MODULE Spec2Model ----
(***************************************************************************)
(* A model of the photo editor (App component, v2.1.0 snapshot, lines      *)
(* 1-652 of src/unnamed/part_000): the canvas bitmap, the retained         *)
(* original image, the tool state, the stroke engine (startDrawing, draw,  *)
(* stopDrawing), the mosaic filter (applyMosaicEffect), the crop overlay   *)
(* (CropOverlay.handlePointerDown/Move/Up) and the crop commit (applyCrop).*)
(*                                                                         *)
(* Numbers.  The code computes in IEEE doubles; the model computes in      *)
(* integers and only admits pointer positions for which the code's         *)
(* divisions are exact, so no rounding is invented.  Crop percentages are  *)
(* integers in 0..100; buffer coordinates are integers (pixel corners).    *)
(*                                                                         *)
(* Rendering.  A React state update is followed by a re-render before the  *)
(* next event is handled; each action below includes that re-render and    *)
(* the effects it runs.  CropOverlay is a component function created       *)
(* inside App's body (line 407), so every re-render of App gives it a new  *)
(* identity and React unmounts the old overlay and mounts a fresh one,     *)
(* whose useState/useRef start from their initial values.                  *)
(***************************************************************************)
EXTENDS Integers, Sequences, FiniteSets, TLC

VARIABLES
    canvas,            \* the <canvas> bitmap (BitmapSurface); NoCanvas until an image is shown
    originalImageObj,  \* the retained image (OriginalSurface); NoImage until a load completes
    pendingImgs,       \* requests whose img.onload has not fired yet (file loads and crop commits)
    activeTool,        \* "none" | "brush" | "mosaic" | "eraser" | "crop"
    isSettingsOpen,    \* settings panel visibility (gates the settings events)
    brushColor,        \* <<r, g, b>>
    brushSize,         \* slider value
    mosaicType,        \* "pixel" | "blur"
    cropRect,          \* [x, y, w, h] in percent
    isDrawing,         \* stroke engine flag (useRef)
    lastPos,           \* <<>> or <<[x, y]>> (useRef, null or a point)
    activeHandle,      \* CropOverlay state: "null" or a HandleType
    startPos,          \* CropOverlay ref: <<>> or <<[x, y]>>
    startRect,         \* CropOverlay ref: the anchor rectangle
    last,              \* history: the last event handled and what it was given
    nDrags,            \* history: drag sessions started so far
    nOps,              \* history: painting operations applied so far
    nReqs              \* history: image requests issued so far (file loads and crop commits)

vars == <<canvas, originalImageObj, pendingImgs, activeTool, isSettingsOpen,
          brushColor, brushSize, mosaicType, cropRect, isDrawing, lastPos,
          activeHandle, startPos, startRect, last, nDrags, nOps, nReqs>>

appVars == <<canvas, originalImageObj, pendingImgs, activeTool, isSettingsOpen,
             brushColor, brushSize, mosaicType>>

strokeVars == <<isDrawing, lastPos>>

overlayVars == <<activeHandle, startPos, startRect>>

-----------------------------------------------------------------------------
(* Arithmetic helpers (Math.min, Math.max, Math.floor on exact quotients). *)

Min(a, b) == IF a <= b THEN a ELSE b

Max(a, b) == IF a >= b THEN a ELSE b

Abs(a) == IF a >= 0 THEN a ELSE -a

-----------------------------------------------------------------------------
(* Bitmaps: [w, h, px] with px a sequence of h rows of w pixels             *)
(* <<r, g, b, a>>, each 0..255, colour premultiplied by alpha as a canvas   *)
(* stores it.  A canvas has an alpha channel (getContext('2d') default) and *)
(* starts transparent; drawing composites source-over.                      *)

NoCanvas == [w |-> 0, h |-> 0, px |-> <<>>]

NoImage == [w |-> 0, h |-> 0, px |-> <<>>]

NoPos == <<>>

NoHandle == "null"

Pt(px, py) == [x |-> px, y |-> py]

Rect(rx, ry, rw, rh) == [x |-> rx, y |-> ry, w |-> rw, h |-> rh]

FullFrame == Rect(0, 0, 100, 100)

HandleTypes == {"tl", "tr", "bl", "br", "t", "b", "l", "r"}

Tools == {"none", "brush", "mosaic", "eraser", "crop"}

\* A decoded picture: every pixel its own colour, one pixel half transparent
\* (column 3 of row 1) and one fully transparent (column 23 of row 4), as
\* a PNG may have.
TestAlpha(i, j) == IF i = 3 /\ j = 1 THEN 128 ELSE IF i = 23 /\ j = 4 THEN 0 ELSE 255

TestImage(iw, ih) ==
    [w |-> iw, h |-> ih,
     px |-> [j \in 1..ih |-> [i \in 1..iw |->
                <<(((i * 10 + j * 3) % 256) * TestAlpha(i, j)) \div 255,
                  (((i * 7 + j * 50) % 256) * TestAlpha(i, j)) \div 255,
                  (((200 - i * 4 - j) % 256) * TestAlpha(i, j)) \div 255,
                  TestAlpha(i, j)>>]]]

-----------------------------------------------------------------------------
(* Pixel operations of the 2D context.  Pixel (i, j), 1-based, is the unit  *)
(* square [i-1, i] x [j-1, j] of buffer space.  A shape replaces the pixels *)
(* it covers entirely and is anti-aliased into those it covers in part;    *)
(* the model takes half coverage for every partly covered pixel.           *)

Sq(a) == a * a

\* A CSS colour '#rrggbb' or rgb(r, g, b) as a pixel.
Opaque(c) == <<c[1], c[2], c[3], 255>>

\* globalCompositeOperation 'source-over' (the default): src drawn over dst.
SourceOver(src, dst) ==
    <<src[1] + (dst[1] * (255 - src[4])) \div 255,
      src[2] + (dst[2] * (255 - src[4])) \div 255,
      src[3] + (dst[3] * (255 - src[4])) \div 255,
      src[4] + (dst[4] * (255 - src[4])) \div 255>>

\* The same for a pixel the shape covers in part: src at half coverage.
Mix(src, dst) ==
    <<src[1] \div 2 + (dst[1] * (510 - src[4])) \div 510,
      src[2] \div 2 + (dst[2] * (510 - src[4])) \div 510,
      src[3] \div 2 + (dst[3] * (510 - src[4])) \div 510,
      src[4] \div 2 + (dst[4] * (510 - src[4])) \div 510>>

\* getImageData returns colours not premultiplied.
Unpremultiply(q) ==
    IF q[4] = 0 THEN <<0, 0, 0, 0>>
    ELSE <<(2 * 255 * q[1] + q[4]) \div (2 * q[4]),
           (2 * 255 * q[2] + q[4]) \div (2 * q[4]),
           (2 * 255 * q[3] + q[4]) \div (2 * q[4]),
           q[4]>>

\* Distance along one axis from c to the farthest / nearest point of [i-1, i].
FarAxis(i, c) == Max(Abs(i - 1 - c), Abs(i - c))

NearAxis(i, c) == IF c < i - 1 THEN i - 1 - c ELSE IF c > i THEN c - i ELSE 0

\* The disc of diameter diam centred at (cx, cy) contains / meets pixel (i, j).
DiskCovers(i, j, cx, cy, diam) == 4 * (Sq(FarAxis(i, cx)) + Sq(FarAxis(j, cy))) <= Sq(diam)

DiskTouches(i, j, cx, cy, diam) == 4 * (Sq(NearAxis(i, cx)) + Sq(NearAxis(j, cy))) < Sq(diam)

\* Point (qx, qy) is within lw/2 of the segment a-b (strictly when strict).
NearSegment(qx, qy, a, b, lw, strict) ==
    LET len2  == Sq(b.x - a.x) + Sq(b.y - a.y)
        t     == (qx - a.x) * (b.x - a.x) + (qy - a.y) * (b.y - a.y)
        cross == (qx - a.x) * (b.y - a.y) - (qy - a.y) * (b.x - a.x)
        lhs   == IF len2 = 0 \/ t <= 0 THEN 4 * (Sq(qx - a.x) + Sq(qy - a.y))
                 ELSE IF t >= len2 THEN 4 * (Sq(qx - b.x) + Sq(qy - b.y))
                 ELSE 4 * Sq(cross)
        rhs   == IF len2 = 0 \/ t <= 0 \/ t >= len2 THEN Sq(lw) ELSE Sq(lw) * len2
    IN  IF strict THEN lhs < rhs ELSE lhs <= rhs

\* The round-capped line a-b of width lw contains / meets pixel (i, j).
StrokeCovers(i, j, a, b, lw) ==
    \A qx \in {i - 1, i}, qy \in {j - 1, j} : NearSegment(qx, qy, a, b, lw, FALSE)

StrokeTouches(i, j, a, b, lw) ==
    \/ \E qx \in {i - 1, i}, qy \in {j - 1, j} : NearSegment(qx, qy, a, b, lw, TRUE)
    \/ DiskTouches(i, j, a.x, a.y, lw)
    \/ DiskTouches(i, j, b.x, b.y, lw)

\* ctx.beginPath(); moveTo(a); lineTo(b); lineCap = lineJoin = 'round'; stroke()
StrokeLine(bmp, a, b, colour, lw) ==
    [bmp EXCEPT !.px = [j \in 1..bmp.h |-> [i \in 1..bmp.w |->
        IF StrokeCovers(i, j, a, b, lw) THEN SourceOver(Opaque(colour), bmp.px[j][i])
        ELSE IF StrokeTouches(i, j, a, b, lw) THEN Mix(Opaque(colour), bmp.px[j][i])
        ELSE bmp.px[j][i]]]]

\* ctx.fillRect(x0, y0, size, size) with integer corners
FillRect(bmp, x0, y0, size, colour) ==
    [bmp EXCEPT !.px = [j \in 1..bmp.h |-> [i \in 1..bmp.w |->
        IF x0 < i /\ i <= x0 + size /\ y0 < j /\ j <= y0 + size
        THEN SourceOver(Opaque(colour), bmp.px[j][i])
        ELSE bmp.px[j][i]]]]

\* ctx.beginPath(); arc(cx, cy, diam / 2, 0, 2 pi); fill()
FillDisk(bmp, cx, cy, diam, colour) ==
    [bmp EXCEPT !.px = [j \in 1..bmp.h |-> [i \in 1..bmp.w |->
        IF DiskCovers(i, j, cx, cy, diam) THEN SourceOver(Opaque(colour), bmp.px[j][i])
        ELSE IF DiskTouches(i, j, cx, cy, diam) THEN Mix(Opaque(colour), bmp.px[j][i])
        ELSE bmp.px[j][i]]]]

\* ctx.save(); arc(cx, cy, diam / 2); clip(); drawImage(img, 0, 0); restore()
ClipDrawImage(bmp, img, cx, cy, diam) ==
    [bmp EXCEPT !.px = [j \in 1..bmp.h |-> [i \in 1..bmp.w |->
        IF ~(i <= img.w /\ j <= img.h) THEN bmp.px[j][i]
        ELSE IF DiskCovers(i, j, cx, cy, diam) THEN SourceOver(img.px[j][i], bmp.px[j][i])
        ELSE IF DiskTouches(i, j, cx, cy, diam) THEN Mix(img.px[j][i], bmp.px[j][i])
        ELSE bmp.px[j][i]]]]

\* ctx.getImageData(x0, y0, sw, sh).data as a row-major sequence of pixels
ImageData(bmp, x0, y0, sw, sh) ==
    [n \in 1..(sw * sh) |->
        Unpremultiply(bmp.px[y0 + 1 + ((n - 1) \div sw)][x0 + 1 + ((n - 1) % sw)])]

-----------------------------------------------------------------------------
(* Layout: where the browser puts the canvas and its container.            *)

\* canvas.getBoundingClientRect(): the canvas is shown at its natural size.
RectLeft == 10

RectTop == 20

CanvasRect == [left |-> RectLeft, top |-> RectTop, width |-> canvas.w, height |-> canvas.h]

\* containerRef is the inline-block wrapper of the canvas: same box.
ContainerRect == CanvasRect

\* The overlay is rendered only inside the image pane and only in crop mode.
OverlayMounted == activeTool = "crop" /\ canvas # NoCanvas

-----------------------------------------------------------------------------
(* Crop Geometry Engine: CropOverlay.handlePointerMove's switch.           *)

minSize == 1

\* Mutant of CaseL: the width follows the raw delta instead of the clamped edge.
CaseL_RawDelta(sr, dX, dY) ==
    LET newXL == Min(Max(0, sr.x + dX), sr.x + sr.w - minSize)
    IN  [sr EXCEPT !.x = newXL, !.w = sr.w - dX]

CaseL(sr, dX, dY) ==
    LET newXL == Min(Max(0, sr.x + dX), sr.x + sr.w - minSize)
    IN  [sr EXCEPT !.x = newXL, !.w = sr.w - (newXL - sr.x)]

\* Mutant of CaseR: the upper clamp 100 - x is missing.
CaseR_NoUpperClamp(sr, dX, dY) ==
    [sr EXCEPT !.w = Max(minSize, sr.w + dX)]

CaseR(sr, dX, dY) ==
    [sr EXCEPT !.w = Max(minSize, Min(100 - sr.x, sr.w + dX))]

\* Mutant of CaseT: the height is kept, so the bottom edge moves with the top.
CaseT_MovesBottom(sr, dX, dY) ==
    LET newYT == Min(Max(0, sr.y + dY), sr.y + sr.h - minSize)
    IN  [sr EXCEPT !.y = newYT]

CaseT(sr, dX, dY) ==
    LET newYT == Min(Max(0, sr.y + dY), sr.y + sr.h - minSize)
    IN  [sr EXCEPT !.y = newYT, !.h = sr.h - (newYT - sr.y)]

\* Mutant of CaseB: the lower clamp minSize is missing.
CaseB_NoLowerClamp(sr, dX, dY) ==
    [sr EXCEPT !.h = Min(100 - sr.y, sr.h + dY)]

CaseB(sr, dX, dY) ==
    [sr EXCEPT !.h = Max(minSize, Min(100 - sr.y, sr.h + dY))]

\* Mutant of CaseTL: the top edge is clamped with the width instead of the height.
CaseTL_WrongAxis(sr, dX, dY) ==
    LET newXTL == Min(Max(0, sr.x + dX), sr.x + sr.w - minSize)
        newYTL == Min(Max(0, sr.y + dY), sr.y + sr.w - minSize)
    IN  [x |-> newXTL, w |-> sr.w - (newXTL - sr.x),
         y |-> newYTL, h |-> sr.h - (newYTL - sr.y)]

CaseTL(sr, dX, dY) ==
    LET newXTL == Min(Max(0, sr.x + dX), sr.x + sr.w - minSize)
        newYTL == Min(Max(0, sr.y + dY), sr.y + sr.h - minSize)
    IN  [x |-> newXTL, w |-> sr.w - (newXTL - sr.x),
         y |-> newYTL, h |-> sr.h - (newYTL - sr.y)]

CaseTR(sr, dX, dY) ==
    LET newYTR == Min(Max(0, sr.y + dY), sr.y + sr.h - minSize)
    IN  [x |-> sr.x, w |-> Max(minSize, Min(100 - sr.x, sr.w + dX)),
         y |-> newYTR, h |-> sr.h - (newYTR - sr.y)]

CaseBL(sr, dX, dY) ==
    LET newXBL == Min(Max(0, sr.x + dX), sr.x + sr.w - minSize)
    IN  [x |-> newXBL, w |-> sr.w - (newXBL - sr.x),
         y |-> sr.y, h |-> Max(minSize, Min(100 - sr.y, sr.h + dY))]

CaseBR(sr, dX, dY) ==
    [x |-> sr.x, w |-> Max(minSize, Min(100 - sr.x, sr.w + dX)),
     y |-> sr.y, h |-> Max(minSize, Min(100 - sr.y, sr.h + dY))]

\* let newRect = { ...startRectRef.current }; switch (activeHandle) { ... }
NewRect(handle, sr, dX, dY) ==
    CASE handle = "l"  -> CaseL(sr, dX, dY)
      [] handle = "r"  -> CaseR(sr, dX, dY)
      [] handle = "t"  -> CaseT(sr, dX, dY)
      [] handle = "b"  -> CaseB(sr, dX, dY)
      [] handle = "tl" -> CaseTL(sr, dX, dY)
      [] handle = "tr" -> CaseTR(sr, dX, dY)
      [] handle = "bl" -> CaseBL(sr, dX, dY)
      [] handle = "br" -> CaseBR(sr, dX, dY)
      [] OTHER         -> sr

\* Pointer positions the environment delivers to the overlay, as pixel offsets
\* from the container's corner: where a pointer goes down, and where it is
\* moved to (the fifth one lies outside the container).
PtrDown == {Pt(10, 10)}

PtrMove == {Pt(10, 10), Pt(9, 9), Pt(8, 8), Pt(12, 12), Pt(30, -10), Pt(9, 12), Pt(2, 2)}

ClientPt(off) == Pt(RectLeft + off.x, RectTop + off.y)

\* Drag sessions started since crop mode was entered are counted up to MaxDrags.
MaxDrags == 2

\* dX = (deltaXPix / containerW) * 100, admitted only when the quotient is exact.
Exact(deltaPix, containerSize) == (deltaPix * 100) % containerSize = 0

Percent(deltaPix, containerSize) == (deltaPix * 100) \div containerSize

\* What the history keeps of the press a pointer event belongs to: the
\* handle pressed, where, and the rectangle at that moment.
NoSession == [type |-> NoHandle, pos |-> NoPos, rect |-> FullFrame]

handlePointerDown(type, clientX, clientY) ==
    /\ OverlayMounted
    /\ nDrags < MaxDrags
    /\ nDrags' = nDrags + 1
    /\ activeHandle' = type
    /\ startPos' = <<Pt(clientX, clientY)>>
    /\ startRect' = cropRect
    /\ last' = [op |-> "pointerDown", a |-> <<type>>,
                sess |-> [type |-> type, pos |-> <<Pt(clientX, clientY)>>, rect |-> cropRect]]
    /\ UNCHANGED <<appVars, strokeVars, cropRect, nOps, nReqs>>

handlePointerMove(clientX, clientY) ==
    /\ OverlayMounted
    /\ IF activeHandle = NoHandle \/ startPos = NoPos
       THEN /\ last' = [op |-> "pointerMoveIgnored", a |-> <<>>,
                        sess |-> IF "sess" \in DOMAIN last THEN last.sess ELSE NoSession,
                        at |-> Pt(clientX, clientY)]
            /\ UNCHANGED <<appVars, strokeVars, cropRect, overlayVars, nDrags, nOps, nReqs>>
       ELSE LET deltaXPix == clientX - startPos[1].x
                deltaYPix == clientY - startPos[1].y
                containerW == ContainerRect.width
                containerH == ContainerRect.height
            IN  /\ containerW # 0 /\ containerH # 0
                /\ Exact(deltaXPix, containerW) /\ Exact(deltaYPix, containerH)
                /\ LET dX == Percent(deltaXPix, containerW)
                       dY == Percent(deltaYPix, containerH)
                       newRect == NewRect(activeHandle, startRect, dX, dY)
                   IN  /\ cropRect' = newRect
                       \* setCropRect re-renders App: the overlay is remounted
                       /\ activeHandle' = NoHandle
                       /\ startPos' = NoPos
                       /\ startRect' = newRect
                       /\ last' = [op |-> "pointerMove", a |-> <<activeHandle, startRect>>,
                                   sess |-> [type |-> activeHandle, pos |-> startPos, rect |-> startRect],
                                   at |-> Pt(clientX, clientY)]
                /\ UNCHANGED <<appVars, strokeVars, nDrags, nOps, nReqs>>

handlePointerUp ==
    /\ OverlayMounted
    /\ IF activeHandle # NoHandle
       THEN activeHandle' = NoHandle /\ startPos' = NoPos
       ELSE UNCHANGED <<activeHandle, startPos>>
    /\ last' = [op |-> "pointerUp", a |-> <<>>]
    /\ UNCHANGED <<appVars, strokeVars, cropRect, startRect, nDrags, nOps, nReqs>>

\* A pointer goes down on the body of the crop rectangle, away from the
\* handles: that div binds no handler and the overlay's root binds
\* onPointerUp only, so the event changes nothing.
bodyPointerDown(clientX, clientY) ==
    /\ OverlayMounted
    /\ last' = [op |-> "bodyPointerDown", a |-> <<>>,
                sess |-> [type |-> "move", pos |-> <<Pt(clientX, clientY)>>, rect |-> cropRect]]
    /\ UNCHANGED <<appVars, strokeVars, cropRect, overlayVars, nDrags, nOps, nReqs>>

\* The pointer leaves the handle it went down on.  The handle's element was
\* replaced when setActiveHandle re-rendered the overlay, which ended the
\* pointer capture; no element of the overlay binds onPointerLeave, so the
\* event changes nothing.
pointerLeave ==
    /\ OverlayMounted
    /\ last' = [op |-> "pointerLeave", a |-> <<>>]
    /\ UNCHANGED <<appVars, strokeVars, cropRect, overlayVars, nDrags, nOps, nReqs>>

-----------------------------------------------------------------------------
(* Tool state: the footer, the settings panel and its controls.            *)

\* What a re-render of App does to the crop overlay (see the header).
Rerender == activeHandle' = NoHandle /\ startPos' = NoPos /\ startRect' = cropRect'

\* SubToolBar returns null unless a painting tool is active and the panel is open.
SubToolBarShown == activeTool \notin {"none", "crop"} /\ isSettingsOpen

\* Mutant of handleToolSelect: entering crop mode keeps the rectangle.
handleToolSelect_KeepsRect(tool) ==
    /\ IF activeTool = tool
       THEN /\ isSettingsOpen' = ~isSettingsOpen
            /\ UNCHANGED <<activeTool, cropRect>>
       ELSE /\ activeTool' = tool
            /\ isSettingsOpen' = TRUE
            /\ cropRect' = cropRect
    /\ UNCHANGED <<canvas, originalImageObj, pendingImgs, brushColor, brushSize,
                   mosaicType, strokeVars, last, nDrags, nOps, nReqs>>
    /\ Rerender

handleToolSelect(tool) ==
    /\ IF activeTool = tool
       THEN /\ isSettingsOpen' = ~isSettingsOpen
            /\ UNCHANGED <<activeTool, cropRect>>
       ELSE /\ activeTool' = tool
            /\ isSettingsOpen' = TRUE
            /\ cropRect' = IF tool = "crop" THEN FullFrame ELSE cropRect
    /\ Rerender
    /\ UNCHANGED <<canvas, originalImageObj, pendingImgs, brushColor, brushSize,
                   mosaicType, strokeVars, last, nDrags, nOps, nReqs>>

closeSettingsPanel ==
    /\ SubToolBarShown
    /\ isSettingsOpen' = FALSE
    /\ UNCHANGED <<canvas, originalImageObj, pendingImgs, activeTool, brushColor, brushSize,
                   mosaicType, cropRect, strokeVars, overlayVars, last, nDrags, nOps, nReqs>>

\* sliderRef.current.getBoundingClientRect()
SliderRect == [left |-> 40, width |-> 150]

\* Mutant of SliderValue: the percentage is not clamped to [0, 1].
SliderValue_NoClamp(clientX, min, max) ==
    LET d == clientX - SliderRect.left
    IN  (2 * (min * SliderRect.width + d * (max - min)) + SliderRect.width) \div (2 * SliderRect.width)

\* TouchSlider.calculateAndSetValue with min = 5, max = 80, onChange = setBrushSize:
\* Math.round(min + percentage * (max - min)), Math.round rounding halves up.
SliderValue(clientX, min, max) ==
    LET d == Max(0, Min(SliderRect.width, clientX - SliderRect.left))
    IN  (2 * (min * SliderRect.width + d * (max - min)) + SliderRect.width) \div (2 * SliderRect.width)

\* Mutant of calculateAndSetValue: a new size redraws the retained image.
calculateAndSetValue_Redraws(clientX) ==
    /\ SubToolBarShown
    /\ brushSize' = SliderValue(clientX, 5, 80)
    /\ canvas' = originalImageObj
    /\ UNCHANGED <<originalImageObj, pendingImgs, activeTool, isSettingsOpen, brushColor,
                   mosaicType, cropRect, strokeVars, overlayVars, last, nDrags, nOps, nReqs>>

calculateAndSetValue(clientX) ==
    /\ SubToolBarShown
    /\ brushSize' = SliderValue(clientX, 5, 80)
    /\ UNCHANGED <<canvas, originalImageObj, pendingImgs, activeTool, isSettingsOpen, brushColor,
                   mosaicType, cropRect, strokeVars, overlayVars, last, nDrags, nOps, nReqs>>

setBrushColor(c) ==
    /\ SubToolBarShown /\ activeTool = "brush"
    /\ brushColor' = c
    /\ UNCHANGED <<canvas, originalImageObj, pendingImgs, activeTool, isSettingsOpen, brushSize,
                   mosaicType, cropRect, strokeVars, overlayVars, last, nDrags, nOps, nReqs>>

setMosaicType(t) ==
    /\ SubToolBarShown /\ activeTool = "mosaic"
    /\ mosaicType' = t
    /\ UNCHANGED <<canvas, originalImageObj, pendingImgs, activeTool, isSettingsOpen, brushColor,
                   brushSize, cropRect, strokeVars, overlayVars, last, nDrags, nOps, nReqs>>

-----------------------------------------------------------------------------
(* The mosaic filter.                                                      *)

\* Mutant of MosaicBounds: the start is not clamped at 0.
MosaicBounds_NoClamp(x, y, size, type, canvasW, canvasH) ==
    LET multiplier == 4
        effectSize == size * multiplier
        startX == IF type = "pixel" THEN (x \div effectSize) * effectSize ELSE x - effectSize \div 2
        startY == IF type = "pixel" THEN (y \div effectSize) * effectSize ELSE y - effectSize \div 2
    IN  [startX |-> startX, startY |-> startY, effectSize |-> effectSize,
         sampleW |-> Min(effectSize, canvasW - startX),
         sampleH |-> Min(effectSize, canvasH - startY)]

\* Mutant of MosaicBounds: blur mode snaps the sample origin to the grid as
\* pixel mode does.
MosaicBounds_BlurSnaps(x, y, size, type, canvasW, canvasH) ==
    LET multiplier == 4
        effectSize == size * multiplier
        rawX   == (x \div effectSize) * effectSize
        rawY   == (y \div effectSize) * effectSize
        startX == IF rawX < 0 THEN 0 ELSE rawX
        startY == IF rawY < 0 THEN 0 ELSE rawY
    IN  [startX |-> startX, startY |-> startY, effectSize |-> effectSize,
         sampleW |-> Min(effectSize, canvasW - startX),
         sampleH |-> Min(effectSize, canvasH - startY)]

\* Mutant of MosaicBounds: pixel mode starts the block at the point itself.
MosaicBounds_NoSnap(x, y, size, type, canvasW, canvasH) ==
    LET multiplier == 4
        effectSize == size * multiplier
        rawX   == IF type = "pixel" THEN x ELSE x - effectSize \div 2
        rawY   == IF type = "pixel" THEN y ELSE y - effectSize \div 2
        startX == IF rawX < 0 THEN 0 ELSE rawX
        startY == IF rawY < 0 THEN 0 ELSE rawY
    IN  [startX |-> startX, startY |-> startY, effectSize |-> effectSize,
         sampleW |-> Min(effectSize, canvasW - startX),
         sampleH |-> Min(effectSize, canvasH - startY)]

\* The block applyMosaicEffect samples and fills for a point and a brush size.
MosaicBounds(x, y, size, type, canvasW, canvasH) ==
    LET multiplier == 4
        effectSize == size * multiplier
        rawX   == IF type = "pixel" THEN (x \div effectSize) * effectSize ELSE x - effectSize \div 2
        rawY   == IF type = "pixel" THEN (y \div effectSize) * effectSize ELSE y - effectSize \div 2
        startX == IF rawX < 0 THEN 0 ELSE rawX
        startY == IF rawY < 0 THEN 0 ELSE rawY
    IN  [startX |-> startX, startY |-> startY, effectSize |-> effectSize,
         sampleW |-> Min(effectSize, canvasW - startX),
         sampleH |-> Min(effectSize, canvasH - startY)]

\* for (i = 0; i < data.length; i += 16): channel ch summed over every fourth
\* pixel of the block, the lo-th to the hi-th of them (halving keeps the
\* recursion shallow; the sum is the loop's).
RECURSIVE SumEvery4(_, _, _, _)
SumEvery4(data, lo, hi, ch) ==
    IF lo > hi THEN 0
    ELSE IF lo = hi THEN data[4 * lo + 1][ch]
    ELSE SumEvery4(data, lo, (lo + hi) \div 2, ch) + SumEvery4(data, (lo + hi) \div 2 + 1, hi, ch)

\* Mutant of applyMosaicEffect: the square is filled from the point itself,
\* not from the block's start.
applyMosaicEffect_FillsAtPoint(bmp, x, y, size, type) ==
    LET b == MosaicBounds(x, y, size, type, bmp.w, bmp.h)
    IN  IF b.sampleW <= 0 \/ b.sampleH <= 0 THEN bmp
        ELSE LET data   == ImageData(bmp, b.startX, b.startY, b.sampleW, b.sampleH)
                 count  == (Len(data) + 3) \div 4
                 colour == <<SumEvery4(data, 0, count - 1, 1) \div count,
                             SumEvery4(data, 0, count - 1, 2) \div count,
                             SumEvery4(data, 0, count - 1, 3) \div count>>
             IN  IF type = "pixel"
                 THEN FillRect(bmp, x, y, b.effectSize, colour)
                 ELSE FillDisk(bmp, x, y, b.effectSize, colour)

\* Mutant of applyMosaicEffect: the sums over every fourth pixel are divided
\* by the number of all pixels of the sample.
applyMosaicEffect_CountsAll(bmp, x, y, size, type) ==
    LET b == MosaicBounds(x, y, size, type, bmp.w, bmp.h)
    IN  IF b.sampleW <= 0 \/ b.sampleH <= 0 THEN bmp
        ELSE LET data   == ImageData(bmp, b.startX, b.startY, b.sampleW, b.sampleH)
                 count  == (Len(data) + 3) \div 4
                 colour == <<SumEvery4(data, 0, count - 1, 1) \div Len(data),
                             SumEvery4(data, 0, count - 1, 2) \div Len(data),
                             SumEvery4(data, 0, count - 1, 3) \div Len(data)>>
             IN  IF type = "pixel"
                 THEN FillRect(bmp, b.startX, b.startY, b.effectSize, colour)
                 ELSE FillDisk(bmp, x, y, b.effectSize, colour)

\* Mutant of applyMosaicEffect: the square filled has half the side.
applyMosaicEffect_HalfBlock(bmp, x, y, size, type) ==
    LET b == MosaicBounds(x, y, size, type, bmp.w, bmp.h)
    IN  IF b.sampleW <= 0 \/ b.sampleH <= 0 THEN bmp
        ELSE LET data   == ImageData(bmp, b.startX, b.startY, b.sampleW, b.sampleH)
                 count  == (Len(data) + 3) \div 4
                 colour == <<SumEvery4(data, 0, count - 1, 1) \div count,
                             SumEvery4(data, 0, count - 1, 2) \div count,
                             SumEvery4(data, 0, count - 1, 3) \div count>>
             IN  IF type = "pixel"
                 THEN FillRect(bmp, b.startX, b.startY, b.effectSize \div 2, colour)
                 ELSE FillDisk(bmp, x, y, b.effectSize, colour)

\* Mutant of applyMosaicEffect: the corner pixel is written before the
\* sample rectangle is tested.
applyMosaicEffect_WritesFirst(bmp, x, y, size, type) ==
    LET b == MosaicBounds(x, y, size, type, bmp.w, bmp.h)
    IN  IF b.sampleW <= 0 \/ b.sampleH <= 0 THEN FillRect(bmp, 0, 0, 1, <<0, 0, 0>>)
        ELSE LET data   == ImageData(bmp, b.startX, b.startY, b.sampleW, b.sampleH)
                 count  == (Len(data) + 3) \div 4
                 colour == <<SumEvery4(data, 0, count - 1, 1) \div count,
                             SumEvery4(data, 0, count - 1, 2) \div count,
                             SumEvery4(data, 0, count - 1, 3) \div count>>
             IN  IF type = "pixel"
                 THEN FillRect(bmp, b.startX, b.startY, b.effectSize, colour)
                 ELSE FillDisk(bmp, x, y, b.effectSize, colour)

applyMosaicEffect(bmp, x, y, size, type) ==
    LET b == MosaicBounds(x, y, size, type, bmp.w, bmp.h)
    IN  IF b.sampleW <= 0 \/ b.sampleH <= 0 THEN bmp
        ELSE LET data   == ImageData(bmp, b.startX, b.startY, b.sampleW, b.sampleH)
                 count  == (Len(data) + 3) \div 4
                 colour == <<SumEvery4(data, 0, count - 1, 1) \div count,
                             SumEvery4(data, 0, count - 1, 2) \div count,
                             SumEvery4(data, 0, count - 1, 3) \div count>>
             IN  IF type = "pixel"
                 THEN FillRect(bmp, b.startX, b.startY, b.effectSize, colour)
                 ELSE FillDisk(bmp, x, y, b.effectSize, colour)

-----------------------------------------------------------------------------
(* The stroke engine.                                                      *)

\* Painting operations applied so far are counted up to MaxOps.
MaxOps == 2

\* Mutant of MapToBuffer: the point is clamped to the buffer.
MapToBuffer_Clamped(clientX, clientY, rect, bufferW, bufferH) ==
    Pt(Max(0, Min(bufferW, ((clientX - rect.left) * bufferW) \div rect.width)),
       Max(0, Min(bufferH, ((clientY - rect.top) * bufferH) \div rect.height)))

\* scaleX = canvas.width / rect.width; x = (clientX - rect.left) * scaleX, and
\* the same for y; whole pixels are kept of the quotient.
MapToBuffer(clientX, clientY, rect, bufferW, bufferH) ==
    Pt(((clientX - rect.left) * bufferW) \div rect.width,
       ((clientY - rect.top) * bufferH) \div rect.height)

getCanvasCoordinates(clientX, clientY) ==
    MapToBuffer(clientX, clientY, CanvasRect, canvas.w, canvas.h)

\* The body of draw after its guards: one operation of the active tool from
\* lastPos (from) to the event's point (to).  The eraser's clip circle has
\* radius brushSize * 5.
DrawOp(bmp, from, to) ==
    CASE activeTool = "brush"  -> StrokeLine(bmp, from, to, brushColor, brushSize)
      [] activeTool = "mosaic" -> applyMosaicEffect(bmp, to.x, to.y, brushSize, mosaicType)
      [] activeTool = "eraser" /\ originalImageObj # NoImage ->
             ClipDrawImage(bmp, originalImageObj, to.x, to.y, 2 * brushSize * 5)
      [] OTHER -> bmp

\* What the history records for a painting operation: the tool and the point,
\* the same for the painting operation before it, and the handler that ran it.
DrawRecord(to, handler) ==
    [op |-> "draw",
     a  |-> <<activeTool, to>> \o (IF last.op = "draw" THEN <<last.a[1], last.a[2]>>
                                    ELSE <<"none", NoPos>>),
     by |-> handler]

Paints == activeTool \in {"brush", "mosaic", "eraser"}

\* Mutant of startDrawing: the start point is recorded and nothing is painted.
startDrawing_SetsOnly(clientX, clientY) ==
    /\ canvas # NoCanvas
    /\ IF activeTool = "none" \/ activeTool = "crop"
       THEN UNCHANGED vars
       ELSE LET p == getCanvasCoordinates(clientX, clientY)
            IN  /\ nOps < MaxOps
                /\ nOps' = nOps + 1
                /\ isSettingsOpen' = FALSE
                /\ isDrawing' = TRUE
                /\ lastPos' = <<p>>
                /\ last' = DrawRecord(p, "startDrawing")
                /\ UNCHANGED <<canvas, originalImageObj, pendingImgs, activeTool, brushColor, brushSize,
                               mosaicType, cropRect, overlayVars, nDrags, nReqs>>

\* Mutant of startDrawing: the active tool is not looked at.
startDrawing_AnyTool(clientX, clientY) ==
    /\ canvas # NoCanvas
    /\ LET p == getCanvasCoordinates(clientX, clientY)
       IN  /\ nOps < MaxOps
           /\ nOps' = nOps + 1
           /\ isSettingsOpen' = FALSE
           /\ isDrawing' = TRUE
           /\ canvas' = DrawOp(canvas, p, p)
           /\ lastPos' = <<p>>
           /\ last' = DrawRecord(p, "startDrawing")
           /\ UNCHANGED <<originalImageObj, pendingImgs, activeTool, brushColor, brushSize,
                          mosaicType, cropRect, overlayVars, nDrags, nReqs>>

\* Mutant of startDrawing: the handler also runs while no canvas is
\* rendered, where getCanvasCoordinates answers (0, 0) and draw returns at
\* its guard.
startDrawing_Unmounted(clientX, clientY) ==
    IF activeTool = "none" \/ activeTool = "crop"
    THEN UNCHANGED vars
    ELSE IF canvas = NoCanvas
    THEN /\ isSettingsOpen' = FALSE
         /\ isDrawing' = TRUE
         /\ lastPos' = <<Pt(0, 0)>>
         /\ UNCHANGED <<canvas, originalImageObj, pendingImgs, activeTool, brushColor, brushSize,
                        mosaicType, cropRect, overlayVars, last, nDrags, nOps, nReqs>>
    ELSE LET p == getCanvasCoordinates(clientX, clientY)
         IN  /\ nOps < MaxOps
             /\ nOps' = nOps + 1
             /\ isSettingsOpen' = FALSE
             /\ isDrawing' = TRUE
             /\ canvas' = DrawOp(canvas, p, p)
             /\ lastPos' = <<p>>
             /\ last' = DrawRecord(p, "startDrawing")
             /\ UNCHANGED <<originalImageObj, pendingImgs, activeTool, brushColor, brushSize,
                            mosaicType, cropRect, overlayVars, nDrags, nReqs>>

startDrawing(clientX, clientY) ==
    /\ canvas # NoCanvas
    /\ IF activeTool = "none" \/ activeTool = "crop"
       THEN UNCHANGED vars
       ELSE LET p == getCanvasCoordinates(clientX, clientY)
            IN  /\ nOps < MaxOps
                /\ nOps' = nOps + 1
                /\ isSettingsOpen' = FALSE
                /\ isDrawing' = TRUE
                /\ canvas' = DrawOp(canvas, p, p)
                /\ lastPos' = <<p>>
                /\ last' = DrawRecord(p, "startDrawing")
                /\ UNCHANGED <<originalImageObj, pendingImgs, activeTool, brushColor, brushSize,
                               mosaicType, cropRect, overlayVars, nDrags, nReqs>>

\* Mutant of draw: the operation is applied at the new point only, not
\* from lastPos.
draw_FromPoint(clientX, clientY) ==
    /\ canvas # NoCanvas
    /\ IF ~isDrawing \/ lastPos = NoPos
       THEN UNCHANGED vars
       ELSE LET p == getCanvasCoordinates(clientX, clientY)
            IN  /\ lastPos' = <<p>>
                /\ IF Paints
                   THEN /\ nOps < MaxOps
                        /\ nOps' = nOps + 1
                        /\ canvas' = DrawOp(canvas, p, p)
                        /\ last' = DrawRecord(p, "draw")
                   ELSE UNCHANGED <<canvas, last, nOps>>
                /\ UNCHANGED <<originalImageObj, pendingImgs, activeTool, isSettingsOpen, brushColor,
                               brushSize, mosaicType, cropRect, isDrawing, overlayVars, nDrags, nReqs>>

\* Mutant of draw: a painting operation also overwrites the retained image.
draw_SavesOriginal(clientX, clientY) ==
    /\ canvas # NoCanvas
    /\ IF ~isDrawing \/ lastPos = NoPos
       THEN UNCHANGED vars
       ELSE LET p == getCanvasCoordinates(clientX, clientY)
            IN  /\ lastPos' = <<p>>
                /\ IF Paints
                   THEN /\ nOps < MaxOps
                        /\ nOps' = nOps + 1
                        /\ canvas' = DrawOp(canvas, lastPos[1], p)
                        /\ originalImageObj' = canvas'
                        /\ last' = DrawRecord(p, "draw")
                   ELSE UNCHANGED <<canvas, originalImageObj, last, nOps>>
                /\ UNCHANGED <<pendingImgs, activeTool, isSettingsOpen, brushColor,
                               brushSize, mosaicType, cropRect, isDrawing, overlayVars, nDrags, nReqs>>

draw(clientX, clientY) ==
    /\ canvas # NoCanvas
    /\ IF ~isDrawing \/ lastPos = NoPos
       THEN UNCHANGED vars
       ELSE LET p == getCanvasCoordinates(clientX, clientY)
            IN  /\ lastPos' = <<p>>
                /\ IF Paints
                   THEN /\ nOps < MaxOps
                        /\ nOps' = nOps + 1
                        /\ canvas' = DrawOp(canvas, lastPos[1], p)
                        /\ last' = DrawRecord(p, "draw")
                   ELSE UNCHANGED <<canvas, last, nOps>>
                /\ UNCHANGED <<originalImageObj, pendingImgs, activeTool, isSettingsOpen, brushColor,
                               brushSize, mosaicType, cropRect, isDrawing, overlayVars, nDrags, nReqs>>

\* A touch on the canvas is cancelled: the canvas binds onTouchStart,
\* onTouchMove and onTouchEnd but no onTouchCancel, so no handler runs.
touchCancel ==
    /\ canvas # NoCanvas
    /\ last' = [op |-> "touchCancel", a |-> <<>>]
    /\ UNCHANGED <<appVars, strokeVars, cropRect, overlayVars, nDrags, nOps, nReqs>>

\* Mutant of stopDrawing: lastPos is kept.
stopDrawing_KeepsPos ==
    /\ canvas # NoCanvas
    /\ isDrawing' = FALSE
    /\ UNCHANGED <<appVars, lastPos, cropRect, overlayVars, last, nDrags, nOps, nReqs>>

stopDrawing ==
    /\ canvas # NoCanvas
    /\ isDrawing' = FALSE
    /\ lastPos' = NoPos
    /\ UNCHANGED <<appVars, cropRect, overlayVars, last, nDrags, nOps, nReqs>>

-----------------------------------------------------------------------------
(* Loading a file and committing a crop.  Both end in an img.onload that   *)
(* the browser fires later, as a task of its own.                          *)

\* Requests in flight are kept up to MaxPending, requests issued up to MaxReqs.
MaxPending == 1

MaxReqs == 2

\* Files the user can pick, and what the browser decodes them to (NoImage:
\* not an image, so onload never fires).
Files == {"photo", "notes"}

Decode(file) ==
    IF file = "photo" THEN TestImage(24, 4) ELSE NoImage

handleFileChange(file) ==
    /\ Len(pendingImgs) < MaxPending
    /\ nReqs < MaxReqs
    /\ nReqs' = nReqs + 1
    /\ pendingImgs' = IF Decode(file) = NoImage THEN pendingImgs
                      ELSE Append(pendingImgs, [img |-> Decode(file), kind |-> "file",
                                                rect |-> FullFrame, src |-> NoCanvas])
    /\ last' = [op |-> "handleFileChange", a |-> <<file>>]
    /\ UNCHANGED <<canvas, originalImageObj, activeTool, isSettingsOpen, brushColor, brushSize,
                   mosaicType, cropRect, strokeVars, overlayVars, nDrags, nOps>>

\* Linear interpolation of two pixels, f hundredths of the way from a to b.
Lerp(a, b, f) ==
    <<((100 - f) * a[1] + f * b[1]) \div 100,
      ((100 - f) * a[2] + f * b[2]) \div 100,
      ((100 - f) * a[3] + f * b[3]) \div 100,
      ((100 - f) * a[4] + f * b[4]) \div 100>>

\* Mutant of CropPixels: the region is taken from the top-left corner.
CropPixels_NoOffset(bmp, rect) ==
    LET cropW == (rect.w * bmp.w) \div 100
        cropH == (rect.h * bmp.h) \div 100
    IN  [w  |-> cropW,
         h  |-> cropH,
         px |-> [j \in 1..cropH |-> [i \in 1..cropW |-> bmp.px[j][i]]]]

\* tempCanvas after tempCtx.drawImage(canvas, cropX, cropY, cropW, cropH, 0, 0, cropW, cropH):
\* its width and height are cropW and cropH truncated to integers, and the
\* source rectangle is copied at scale 1, interpolated where cropX or cropY
\* falls inside a pixel.
CropPixels(bmp, rect) ==
    LET cropX == (rect.x * bmp.w) \div 100
        fracX == (rect.x * bmp.w) % 100
        cropY == (rect.y * bmp.h) \div 100
        fracY == (rect.y * bmp.h) % 100
        cropW == (rect.w * bmp.w) \div 100
        cropH == (rect.h * bmp.h) \div 100
        Row(i, r) == IF fracX = 0 THEN bmp.px[r][cropX + i]
                     ELSE Lerp(bmp.px[r][cropX + i], bmp.px[r][cropX + i + 1], fracX)
    IN  [w  |-> cropW,
         h  |-> cropH,
         px |-> [j \in 1..cropH |-> [i \in 1..cropW |->
                    IF fracY = 0 THEN Row(i, cropY + j)
                    ELSE Lerp(Row(i, cropY + j), Row(i, cropY + j + 1), fracY)]]]

\* Mutant of applyCrop: the region is cut from the retained image.
applyCrop_FromOriginal ==
    /\ OverlayMounted
    /\ originalImageObj # NoImage
    /\ Len(pendingImgs) < MaxPending
    /\ nReqs < MaxReqs
    /\ nReqs' = nReqs + 1
    /\ LET newImg == CropPixels(originalImageObj, cropRect)
       IN  pendingImgs' = IF newImg.w = 0 \/ newImg.h = 0 THEN pendingImgs
                          ELSE Append(pendingImgs, [img |-> newImg, kind |-> "crop",
                                                    rect |-> cropRect, src |-> canvas])
    /\ last' = [op |-> "applyCrop", a |-> <<cropRect>>]
    /\ UNCHANGED <<canvas, originalImageObj, activeTool, isSettingsOpen, brushColor, brushSize,
                   mosaicType, cropRect, strokeVars, overlayVars, nDrags, nOps>>

\* Mutant of applyCrop: an image without pixels loads like any other.
applyCrop_LoadsEmpty ==
    /\ OverlayMounted
    /\ originalImageObj # NoImage
    /\ Len(pendingImgs) < MaxPending
    /\ nReqs < MaxReqs
    /\ nReqs' = nReqs + 1
    /\ pendingImgs' = Append(pendingImgs, [img |-> CropPixels(canvas, cropRect), kind |-> "crop",
                                           rect |-> cropRect, src |-> canvas])
    /\ last' = [op |-> "applyCrop", a |-> <<cropRect>>]
    /\ UNCHANGED <<canvas, originalImageObj, activeTool, isSettingsOpen, brushColor, brushSize,
                   mosaicType, cropRect, strokeVars, overlayVars, nDrags, nOps>>

\* A canvas without pixels serialises to "data:,", which is not an image, so
\* newImg.onload never fires.
applyCrop ==
    /\ OverlayMounted
    /\ originalImageObj # NoImage
    /\ Len(pendingImgs) < MaxPending
    /\ nReqs < MaxReqs
    /\ nReqs' = nReqs + 1
    /\ LET newImg == CropPixels(canvas, cropRect)
       IN  pendingImgs' = IF newImg.w = 0 \/ newImg.h = 0 THEN pendingImgs
                          ELSE Append(pendingImgs, [img |-> newImg, kind |-> "crop",
                                                    rect |-> cropRect, src |-> canvas])
    /\ last' = [op |-> "applyCrop", a |-> <<cropRect>>]
    /\ UNCHANGED <<canvas, originalImageObj, activeTool, isSettingsOpen, brushColor, brushSize,
                   mosaicType, cropRect, strokeVars, overlayVars, nDrags, nOps>>

\* The overlay's cancel button.
cancelCrop ==
    /\ OverlayMounted
    /\ activeTool' = "none"
    /\ isSettingsOpen' = FALSE
    /\ UNCHANGED <<canvas, originalImageObj, pendingImgs, brushColor, brushSize, mosaicType,
                   cropRect, strokeVars, last, nDrags, nOps, nReqs>>
    /\ Rerender

\* Mutant of onload: the image is retained but the canvas is not redrawn.
onload_SkipsEffect(k) ==
    /\ k \in 1..Len(pendingImgs)
    /\ originalImageObj' = pendingImgs[k].img
    /\ activeTool' = "none"
    /\ isSettingsOpen' = FALSE
    /\ pendingImgs' = [n \in 1..(Len(pendingImgs) - 1) |->
                          IF n < k THEN pendingImgs[n] ELSE pendingImgs[n + 1]]
    /\ last' = [op |-> "onload", a |-> <<pendingImgs[k].kind, pendingImgs[k].rect, pendingImgs[k].src>>]
    /\ UNCHANGED <<canvas, brushColor, brushSize, mosaicType, cropRect, strokeVars, nDrags, nOps, nReqs>>
    /\ Rerender

\* img.onload / newImg.onload for the k-th request in flight, the re-render
\* and the effect that sizes the canvas to the image and draws it.
onload(k) ==
    /\ k \in 1..Len(pendingImgs)
    /\ originalImageObj' = pendingImgs[k].img
    /\ canvas' = pendingImgs[k].img
    /\ activeTool' = "none"
    /\ isSettingsOpen' = FALSE
    /\ pendingImgs' = [n \in 1..(Len(pendingImgs) - 1) |->
                          IF n < k THEN pendingImgs[n] ELSE pendingImgs[n + 1]]
    /\ last' = [op |-> "onload", a |-> <<pendingImgs[k].kind, pendingImgs[k].rect, pendingImgs[k].src>>]
    /\ UNCHANGED <<brushColor, brushSize, mosaicType, cropRect, strokeVars, nDrags, nOps, nReqs>>
    /\ Rerender

-----------------------------------------------------------------------------
(* The whole editor, from the freshly constructed App.                     *)

\* Where the canvas is touched, as pixel offsets from its corner.
StrokePts == {Pt(2, 1)}

\* The handle that is dragged, where it is pressed and where it is dragged
\* to: by -25%, by +25% and by +125% of the 24 x 4 picture.
CropHandles == {"tl"}

CropDown == {Pt(12, 2)}

CropMove == {Pt(6, 1), Pt(18, 3), Pt(42, 2)}

Init ==
    /\ canvas = NoCanvas
    /\ originalImageObj = NoImage
    /\ pendingImgs = <<>>
    /\ activeTool = "none"
    /\ isSettingsOpen = FALSE
    /\ brushColor = <<255, 0, 0>>
    /\ brushSize = 20
    /\ mosaicType = "pixel"
    /\ cropRect = FullFrame
    /\ isDrawing = FALSE
    /\ lastPos = NoPos
    /\ activeHandle = NoHandle
    /\ startPos = NoPos
    /\ startRect = FullFrame
    /\ last = [op |-> "init", a |-> <<>>]
    /\ nDrags = 0
    /\ nOps = 0
    /\ nReqs = 0

Next ==
    \/ \E file \in Files : handleFileChange(file)
    \/ \E k \in 1..MaxPending : onload(k)
    \/ \E tool \in {"brush", "mosaic", "eraser", "crop"} : handleToolSelect(tool)
    \/ closeSettingsPanel
    \/ \E p \in StrokePts : startDrawing(ClientPt(p).x, ClientPt(p).y)
    \/ \E p \in StrokePts : draw(ClientPt(p).x, ClientPt(p).y)
    \/ stopDrawing
    \/ \E type \in CropHandles, p \in CropDown : handlePointerDown(type, ClientPt(p).x, ClientPt(p).y)
    \/ \E p \in CropMove : handlePointerMove(ClientPt(p).x, ClientPt(p).y)
    \/ handlePointerUp
    \/ applyCrop
    \/ cancelCrop

Spec == Init /\ [][Next]_vars

-----------------------------------------------------------------------------
(* Painting on a loaded picture: the three painting tools, their settings  *)
(* and the stroke engine.                                                  *)

BrushColors == {<<255, 0, 0>>, <<0, 0, 255>>}

\* Where the slider is touched: its left end (5) and a fifth of the way (20);
\* a captured pointer also reports from beyond the track (the first).
SliderXs == {20, 40, 70}

\* Where the canvas is touched, as pixel offsets from its corner; a touch
\* that began on the canvas keeps reporting to it from outside (the first
\* and the last).
PaintPts == {Pt(-10, 1), Pt(2, 1), Pt(12, 2), Pt(22, 3), Pt(40, 1)}

PaintImage == TestImage(24, 4)

InitPaint ==
    /\ canvas = PaintImage
    /\ originalImageObj = PaintImage
    /\ pendingImgs = <<>>
    /\ activeTool = "none"
    /\ isSettingsOpen = FALSE
    /\ brushColor = <<255, 0, 0>>
    /\ brushSize = 20
    /\ mosaicType = "pixel"
    /\ cropRect = FullFrame
    /\ isDrawing = FALSE
    /\ lastPos = NoPos
    /\ activeHandle = NoHandle
    /\ startPos = NoPos
    /\ startRect = FullFrame
    /\ last = [op |-> "onload", a |-> <<"file", FullFrame, NoCanvas>>]
    /\ nDrags = 0
    /\ nOps = 0
    /\ nReqs = 1

NextPaint ==
    \/ \E tool \in {"brush", "mosaic", "eraser"} : handleToolSelect(tool)
    \/ closeSettingsPanel
    \/ \E clientX \in SliderXs : calculateAndSetValue(clientX)
    \/ \E c \in BrushColors : setBrushColor(c)
    \/ \E t \in {"pixel", "blur"} : setMosaicType(t)
    \/ \E p \in PaintPts : startDrawing(ClientPt(p).x, ClientPt(p).y)
    \/ \E p \in PaintPts : draw(ClientPt(p).x, ClientPt(p).y)
    \/ stopDrawing

SpecPaint == InitPaint /\ [][NextPaint]_vars

-----------------------------------------------------------------------------
(* A stroke under way: the brush was selected and a finger went down on    *)
(* the picture at (2, 1).  Touches move, end, are cancelled and start      *)
(* again, and the tool is changed, crop mode and its cancel included.      *)

\* Where the canvas is touched, as pixel offsets from its corner.
TouchPts == {Pt(2, 1), Pt(12, 2), Pt(40, 1)}

\* The picture after the brush, red and 5 wide after the slider was
\* dragged to its left end, was put down at (2, 1).
TappedImage == StrokeLine(PaintImage, Pt(2, 1), Pt(2, 1), <<255, 0, 0>>, 5)

InitStroke ==
    /\ canvas = TappedImage
    /\ originalImageObj = PaintImage
    /\ pendingImgs = <<>>
    /\ activeTool = "brush"
    /\ isSettingsOpen = FALSE
    /\ brushColor = <<255, 0, 0>>
    /\ brushSize = 5
    /\ mosaicType = "pixel"
    /\ cropRect = FullFrame
    /\ isDrawing = TRUE
    /\ lastPos = <<Pt(2, 1)>>
    /\ activeHandle = NoHandle
    /\ startPos = NoPos
    /\ startRect = FullFrame
    /\ last = [op |-> "draw", a |-> <<"brush", Pt(2, 1), "none", NoPos>>, by |-> "startDrawing"]
    /\ nDrags = 0
    /\ nOps = 0
    /\ nReqs = 1

NextStroke ==
    \/ \E p \in TouchPts : startDrawing(ClientPt(p).x, ClientPt(p).y)
    \/ \E p \in TouchPts : draw(ClientPt(p).x, ClientPt(p).y)
    \/ stopDrawing
    \/ touchCancel
    \/ \E tool \in {"brush", "mosaic", "eraser", "crop"} : handleToolSelect(tool)
    \/ cancelCrop

SpecStroke == InitStroke /\ [][NextStroke]_vars

-----------------------------------------------------------------------------
(* The crop overlay on its own: an image is shown and crop mode was just   *)
(* entered (handleToolSelect('crop') set the full frame).                  *)

\* The rectangle crop mode starts with, and one the overlay reaches from it
\* (tl dragged by +10,+10, then br dragged by -40,-40).
StartRects == {FullFrame, Rect(10, 10, 50, 50)}

\* The picture shown while cropping: 20 x 20, so that one pixel of pointer
\* travel is 5 percent on either axis.
CropImage == TestImage(20, 20)

InitCrop ==
    /\ canvas = CropImage
    /\ originalImageObj = CropImage
    /\ pendingImgs = <<>>
    /\ activeTool = "crop"
    /\ isSettingsOpen = TRUE
    /\ brushColor = <<255, 0, 0>>
    /\ brushSize = 20
    /\ mosaicType = "pixel"
    /\ cropRect \in StartRects
    /\ isDrawing = FALSE
    /\ lastPos = NoPos
    /\ activeHandle = NoHandle
    /\ startPos = NoPos
    /\ startRect = cropRect
    /\ last = [op |-> "init", a |-> <<>>]
    /\ nDrags = 0
    /\ nOps = 0
    /\ nReqs = 1

NextCrop ==
    \/ \E type \in HandleTypes, p \in PtrDown : handlePointerDown(type, ClientPt(p).x, ClientPt(p).y)
    \/ \E p \in PtrMove : handlePointerMove(ClientPt(p).x, ClientPt(p).y)
    \/ handlePointerUp
    \/ \E p \in PtrDown : bodyPointerDown(ClientPt(p).x, ClientPt(p).y)
    \/ pointerLeave

SpecCrop == InitCrop /\ [][NextCrop]_vars

-----------------------------------------------------------------------------
(* Claims about the crop geometry.                                         *)

\* Pointer deltas (percent) the pure-function claims are checked for at
\* every reachable rectangle.
ClaimDeltas == {-100, -45, -5, 0, 1, 40, 100}

\* C1: from the full frame, after any sequence of drag sessions the crop
\* rectangle stays inside [0,100] x [0,100] and is at least minSize wide
\* and high.
C1_CropRectInBounds ==
    /\ 0 <= cropRect.x
    /\ 0 <= cropRect.y
    /\ cropRect.x + cropRect.w <= 100
    /\ cropRect.y + cropRect.h <= 100
    /\ cropRect.w >= 1
    /\ cropRect.h >= 1

\* Two sessions were run and the second one clamped the rectangle at the
\* minimum height, away from the left border.
C1_Witness ==
    /\ nDrags = 2
    /\ last.op = "pointerMove"
    /\ cropRect.h = 1
    /\ cropRect.x > 0

\* C2: a corner drag is the two edge rules applied independently per axis
\* (tl = l + t, tr = r + t, bl = l + b, br = r + b), for every anchor the
\* overlay can hold and every delta; the spec's scenario is one instance.
C2_Composes(sr, dX, dY) ==
    LET l == NewRect("l", sr, dX, dY)
        r == NewRect("r", sr, dX, dY)
        t == NewRect("t", sr, dX, dY)
        b == NewRect("b", sr, dX, dY)
    IN  /\ NewRect("tl", sr, dX, dY) = Rect(l.x, t.y, l.w, t.h)
        /\ NewRect("tr", sr, dX, dY) = Rect(r.x, t.y, r.w, t.h)
        /\ NewRect("bl", sr, dX, dY) = Rect(l.x, b.y, l.w, b.h)
        /\ NewRect("br", sr, dX, dY) = Rect(r.x, b.y, r.w, b.h)

C2_CornerIsTwoEdges ==
    /\ \A dX \in ClaimDeltas, dY \in ClaimDeltas : C2_Composes(cropRect, dX, dY)
    /\ NewRect("tl", Rect(10, 10, 50, 50), -5, -5) = Rect(5, 5, 55, 55)
    /\ (last.op = "pointerMove" /\ last.a[1] = "tl")
          => /\ cropRect.x + cropRect.w = last.a[2].x + last.a[2].w
             /\ cropRect.y + cropRect.h = last.a[2].y + last.a[2].h

\* The scenario ran: tl was dragged by -5,-5 from {10,10,50,50}.
C2_Witness ==
    /\ last.op = "pointerMove"
    /\ last.a = <<"tl", Rect(10, 10, 50, 50)>>
    /\ cropRect = Rect(5, 5, 55, 55)

\* C3: dragging edge r (or l) somewhere and then back to where it was
\* restores x and w, and a drag of one edge leaves the opposite edge
\* where it is.
C3_Reversible(sr, d) ==
    LET r1 == NewRect("r", sr, d, 0)
        l1 == NewRect("l", sr, d, 0)
    IN  /\ r1.x = sr.x
        /\ NewRect("r", r1, sr.w - r1.w, 0) = sr
        /\ l1.x + l1.w = sr.x + sr.w
        /\ NewRect("l", l1, sr.x - l1.x, 0) = sr

C3_EdgesReversible ==
    /\ \A d \in ClaimDeltas : C3_Reversible(cropRect, d)
    /\ (last.op = "pointerMove" /\ last.a[1] = "r") => cropRect.x = last.a[2].x
    /\ (last.op = "pointerMove" /\ last.a[1] = "l")
          => cropRect.x + cropRect.w = last.a[2].x + last.a[2].w

\* The left edge was dragged away from the border in one session and back
\* in the next: the full frame is restored.
C3_Witness ==
    /\ nDrags = 2
    /\ last.op = "pointerMove"
    /\ last.a[1] = "l"
    /\ last.a[2].x > 0
    /\ cropRect = FullFrame

-----------------------------------------------------------------------------
(* Claims about the surfaces: crop commit, eraser, mosaic, retained image. *)

\* The record the history keeps of a completed crop commit: the rectangle
\* committed and the bitmap it was cut from.
CommitDone == last.op = "onload" /\ last.a[1] = "crop"

\* The red of the default brush, which no pixel of the test pictures has.
Red == <<255, 0, 0, 255>>

\* C4: applyCrop with the full frame {0,0,100,100} is an identity on the
\* bitmap: once the commit has completed, the canvas has the width, the
\* height and the pixels it had when the commit was requested.
C4_FullFrameCropIsIdentity ==
    (CommitDone /\ last.a[2] = FullFrame) => canvas = last.a[3]

\* A full-frame commit of a picture that had been painted on has completed.
C4_Witness ==
    /\ CommitDone /\ last.a[2] = FullFrame
    /\ nOps >= 1
    /\ canvas.w = 24 /\ canvas.h = 4
    /\ canvas # Decode("photo")
    /\ canvas = last.a[3]

\* The pixels whose square contains the point p.
PixelsAt(bmp, p) ==
    {ij \in (1..bmp.w) \X (1..bmp.h) :
        ij[1] - 1 <= p.x /\ p.x <= ij[1] /\ ij[2] - 1 <= p.y /\ p.y <= ij[2]}

\* C5: a brush operation at p followed by an eraser operation at p (only
\* tool and settings events in between) leaves the canvas pixel at p equal
\* to the retained image's pixel at p.
C5_EraserRestoresBrushedPoint ==
    (last.op = "draw" /\ last.a[1] = "eraser" /\ last.a[3] = "brush" /\ last.a[4] = last.a[2])
        => \A ij \in PixelsAt(canvas, last.a[2]) :
               canvas.px[ij[2]][ij[1]] = originalImageObj.px[ij[2]][ij[1]]

\* The grid cell of coordinate v for cells of side e: the k with
\* k*e <= v < (k+1)*e.
GridCell(v, e) == CHOOSE k \in -8..8 : k * e <= v /\ v < (k + 1) * e

SameCell(p, q, e) == GridCell(p.x, e) = GridCell(q.x, e) /\ GridCell(p.y, e) = GridCell(q.y, e)

\* Buffer points the mosaic claims compare the point of an operation with.
GridPts == {Pt(-10, 1), Pt(-1, 3), Pt(0, 0), Pt(2, 1), Pt(12, 2), Pt(19, 3), Pt(20, 0), Pt(22, 3)}

FillBounds(p) ==
    LET b == MosaicBounds(p.x, p.y, brushSize, "pixel", canvas.w, canvas.h)
    IN  <<b.startX, b.startY, b.effectSize>>

\* A step in which a painting operation of the mosaic tool in pixel mode runs;
\* lastPos' is its point, lastPos where the stroke was before it.
MosaicPixelStep == nOps' = nOps + 1 /\ activeTool = "mosaic" /\ mosaicType = "pixel"

\* C6: in pixel mode, an obfuscation call has the fill bounds (startX,
\* startY, size) of every point in the same effectSize grid cell, and paints
\* what a call at that point would paint, wherever the stroke started.
C6_SameCellSameBlock ==
    [][MosaicPixelStep =>
          \A q \in GridPts :
              SameCell(lastPos'[1], q, 4 * brushSize) =>
                  /\ FillBounds(q) = FillBounds(lastPos'[1])
                  /\ canvas' = applyMosaicEffect(canvas, q.x, q.y, brushSize, "pixel")]_vars

\* Two mosaic operations in a row at different points of one 20 x 20 cell:
\* columns 1..20 are one flat colour, column 21 is as loaded.
C6_Witness ==
    /\ last.op = "draw"
    /\ last.a[1] = "mosaic" /\ last.a[3] = "mosaic"
    /\ {last.a[2], last.a[4]} = {Pt(2, 1), Pt(12, 2)}
    /\ brushSize = 5 /\ mosaicType = "pixel"
    /\ \A j \in 1..canvas.h, i \in 1..20 : canvas.px[j][i] = canvas.px[1][1]
    /\ canvas.px[1][21] = originalImageObj.px[1][21]
    /\ canvas.px[1][1] # originalImageObj.px[1][1]

\* floor(v / e) * e clamped to >= 0
BlockStart(v, e) == Max(0, GridCell(v, e) * e)

\* after is before with the e x e square at the block start of p filled with
\* one flat colour (as far as the square lies on the bitmap).
BlockFilled(before, after, p, e) ==
    LET InBlock(i, j) == /\ BlockStart(p.x, e) < i /\ i <= BlockStart(p.x, e) + e
                         /\ BlockStart(p.y, e) < j /\ j <= BlockStart(p.y, e) + e
    IN  /\ after.w = before.w /\ after.h = before.h
        /\ \A j \in 1..before.h, i \in 1..before.w :
               IF InBlock(i, j)
               THEN after.px[j][i] = after.px[BlockStart(p.y, e) + 1][BlockStart(p.x, e) + 1]
               ELSE after.px[j][i] = before.px[j][i]

\* The example: a 200 x 100 picture, brushSize 20, a click at (50, 30).
MosaicExample ==
    /\ MosaicBounds(50, 30, 20, "pixel", 200, 100).effectSize = 80
    /\ MosaicBounds(50, 30, 20, "pixel", 200, 100).startX = 0
    /\ MosaicBounds(50, 30, 20, "pixel", 200, 100).startY = 0
    /\ BlockStart(50, 80) = 0 /\ BlockStart(30, 80) = 0
    /\ BlockFilled(TestImage(200, 100),
                   applyMosaicEffect(TestImage(200, 100), 50, 30, 20, "pixel"), Pt(50, 30), 80)

\* C7: in pixel mode with brushSize s the operation at (x, y) uses
\* effectSize = 4*s, starts the block at floor(x/effectSize)*effectSize and
\* floor(y/effectSize)*effectSize, each clamped to >= 0, and fills the whole
\* effectSize square there with one flat colour, leaving the rest alone; on
\* a 200 x 100 picture with brushSize 20, a click at (50, 30) gives the block
\* (0,0)-(80,80).
C7_PixelBlockFilled ==
    /\ [](MosaicExample)
    /\ [][MosaicPixelStep =>
             /\ FillBounds(lastPos'[1]) = <<BlockStart(lastPos'[1].x, 4 * brushSize),
                                            BlockStart(lastPos'[1].y, 4 * brushSize),
                                            4 * brushSize>>
             /\ BlockFilled(canvas, canvas', lastPos'[1], 4 * brushSize)]_vars

\* One mosaic operation at (22, 3) with brushSize 5: the block starting at
\* column 20 is flat, the columns before it are as loaded.
C7_Witness ==
    /\ last.op = "draw" /\ last.a = <<"mosaic", Pt(22, 3), "none", NoPos>>
    /\ brushSize = 5 /\ mosaicType = "pixel"
    /\ nOps = 1
    /\ \A j \in 1..canvas.h, i \in 21..24 : canvas.px[j][i] = canvas.px[1][21]
    /\ \A j \in 1..canvas.h, i \in 1..20 : canvas.px[j][i] = originalImageObj.px[j][i]
    /\ canvas # originalImageObj

\* The pixel bounds of a crop rectangle on a bitmap, when they fall on pixel
\* boundaries: x/100*width, y/100*height, w/100*width, h/100*height.
Aligned(bmp, rect) ==
    /\ (rect.x * bmp.w) % 100 = 0 /\ (rect.y * bmp.h) % 100 = 0
    /\ (rect.w * bmp.w) % 100 = 0 /\ (rect.h * bmp.h) % 100 = 0

\* sub is the region of bmp with those pixel bounds, pixel for pixel.
IsSubRegion(sub, bmp, rect) ==
    /\ sub.w = (rect.w * bmp.w) \div 100
    /\ sub.h = (rect.h * bmp.h) \div 100
    /\ \A j \in 1..sub.h, i \in 1..sub.w :
           sub.px[j][i] = bmp.px[(rect.y * bmp.h) \div 100 + j][(rect.x * bmp.w) \div 100 + i]

\* C8: a crop commit converts the rectangle's percentages to pixel bounds on
\* the canvas as it was when the commit was requested, extracts that region,
\* and replaces the canvas and the retained image with it: once the commit
\* has completed both have the region's size (fractions of a pixel dropped)
\* and, the bounds falling on pixel boundaries, exactly its pixels.
C8_CommitExtractsRegion ==
    CommitDone =>
        /\ canvas = originalImageObj
        /\ canvas.w = (last.a[2].w * last.a[3].w) \div 100
        /\ canvas.h = (last.a[2].h * last.a[3].h) \div 100
        /\ Aligned(last.a[3], last.a[2]) => IsSubRegion(canvas, last.a[3], last.a[2])

\* The commit of {25, 25, 75, 75} on the painted 24 x 4 picture has completed:
\* both surfaces are its 18 x 3 region, with paint in it.
C8_Witness ==
    /\ CommitDone /\ last.a[2] = Rect(25, 25, 75, 75)
    /\ last.a[3].w = 24 /\ last.a[3].h = 4
    /\ last.a[3] # Decode("photo")
    /\ canvas.w = 18 /\ canvas.h = 3
    /\ originalImageObj = canvas
    /\ canvas.px[1][1] = last.a[3].px[2][7]
    /\ \E j \in 1..3, i \in 1..18 : canvas.px[j][i] = Red

\* An eraser operation of the canvas against the retained image at any point
\* and brush size leaves the canvas as it is.
EraserIdle ==
    \A p \in GridPts, size \in {5, 20, 80} :
        ClipDrawImage(canvas, originalImageObj, p.x, p.y, 2 * size * 5) = canvas

\* A step in which a painting operation of the eraser runs at lastPos'.
EraserStep == nOps' = nOps + 1 /\ activeTool = "eraser"

\* C9: a crop commit makes the cropped frame the eraser's restore target:
\* once the commit has completed the retained image is the region cut from
\* the canvas, paint included; an eraser operation applied then leaves the
\* canvas unchanged; and every later eraser operation leaves the retained
\* image alone and gives the pixels inside its circle the retained image's
\* values, so committed paint is restored, never removed.
C9_CropResetsRestoreTarget ==
    /\ [](CommitDone => originalImageObj = CropPixels(last.a[3], last.a[2]))
    /\ [](CommitDone => EraserIdle)
    /\ [][EraserStep =>
             /\ originalImageObj' = originalImageObj
             /\ \A j \in 1..canvas.h, i \in 1..canvas.w :
                    DiskCovers(i, j, lastPos'[1].x, lastPos'[1].y, 2 * brushSize * 5)
                        => canvas'.px[j][i] = originalImageObj.px[j][i]]_vars

\* C10: no stroke operation changes the retained image, which is replaced
\* only when an onload replaces the canvas with the same image; and whenever
\* a picture is shown, the retained image and the canvas have the same width
\* and height.
C10_OriginalInLockstep ==
    /\ []((canvas = NoCanvas) = (originalImageObj = NoImage))
    /\ [](canvas # NoCanvas =>
             (originalImageObj.w = canvas.w /\ originalImageObj.h = canvas.h))
    /\ [][originalImageObj' # originalImageObj =>
             (last'.op = "onload" /\ canvas' = originalImageObj')]_vars

\* A picture cropped to 18 x 3 and then painted twice: the canvas differs
\* from the retained image in pixels, not in size.
C10_Witness ==
    /\ last.op = "draw" /\ nOps = 2
    /\ canvas.w = 18 /\ canvas.h = 3
    /\ originalImageObj.w = 18 /\ originalImageObj.h = 3
    /\ canvas # originalImageObj
    /\ \A j \in 1..3, i \in 1..18 : originalImageObj.px[j][i] # Red

-----------------------------------------------------------------------------
(* Claims about sizes, crop entry and the gestures' interplay.             *)

\* C11: once an image is loaded the canvas is at least one pixel wide and
\* one pixel high (and holds that many pixels), whatever strokes, crop
\* drags and crop commits follow, the commit of a minSize rectangle on a
\* small picture included.
C11_CanvasNeverEmpty ==
    originalImageObj # NoImage =>
        /\ canvas.w > 0 /\ canvas.h > 0
        /\ Len(canvas.px) = canvas.h
        /\ \A j \in 1..canvas.h : Len(canvas.px[j]) = canvas.w

\* The commit of a rectangle one percent wide was requested on the 24 x 4
\* picture (a quarter of a pixel): no image came of it and the canvas is
\* still 24 x 4.
C11_Witness ==
    /\ last.op = "applyCrop"
    /\ last.a[1].w = minSize
    /\ pendingImgs = <<>>
    /\ canvas.w = 24 /\ canvas.h = 4

\* C12: every step that takes activeTool from another value to crop leaves
\* cropRect at the full frame {0, 0, 100, 100}.
C12_CropEntryResetsRect ==
    [][(activeTool # "crop" /\ activeTool' = "crop") => cropRect' = FullFrame]_vars

\* A rectangle other than the full frame was committed, which left crop
\* mode, and crop mode was entered again: the rectangle is the full frame.
C12_Witness ==
    /\ CommitDone
    /\ last.a[2] # FullFrame
    /\ activeTool = "crop"
    /\ cropRect = FullFrame

\* C13: in no reachable state are a stroke (isDrawing) and a crop drag
\* session (activeHandle set) active together.
C13_OneGestureAtATime ==
    ~(isDrawing /\ activeHandle # NoHandle)

\* A step in which startDrawing runs a painting operation.
StartStep == nOps' = nOps + 1 /\ last'.op = "draw" /\ last'.by = "startDrawing"

\* A step in which the overlay's handlePointerDown runs.
PointerDownStep == nDrags' = nDrags + 1

\* C14: a gesture start that arrives while a gesture of the same engine is
\* active is ignored: a startDrawing during a stroke leaves lastPos and the
\* canvas unchanged, and a handlePointerDown during a drag session leaves
\* activeHandle, startPos and startRect unchanged.
C14_ReentrantStartIgnored ==
    [][/\ (isDrawing /\ StartStep) => (lastPos' = lastPos /\ canvas' = canvas)
       /\ (activeHandle # NoHandle /\ PointerDownStep)
              => UNCHANGED <<activeHandle, startPos, startRect>>]_vars

\* A crop commit has been requested and its image has not been installed.
CommitInFlight == \E k \in 1..Len(pendingImgs) : pendingImgs[k].kind = "crop"

\* C15: a crop commit completes within the event that requested it: while
\* a commit is in flight the only step taken is the one that replaces the
\* canvas and the retained image (a painting operation is applied within
\* its own step by construction).
C15_CommitWithinItsEvent ==
    [][CommitInFlight =>
          (last'.op = "onload" /\ last'.a[1] = "crop" /\ ~CommitInFlight')]_vars

-----------------------------------------------------------------------------
(* Claims about settings, loading and the absent cases.                    *)

\* A step of a tool-selection or settings handler: tool state changes and
\* no stroke handler, load or commit is involved.
SettingsStep ==
    /\ <<activeTool, isSettingsOpen, brushColor, brushSize, mosaicType>>'
           # <<activeTool, isSettingsOpen, brushColor, brushSize, mosaicType>>
    /\ UNCHANGED <<nOps, isDrawing, lastPos, pendingImgs>>

\* C16: selecting a tool and setting the colour, the size or the mosaic
\* mode never change the canvas or the retained image, also while a stroke
\* is active.
C16_SettingsLeaveSurfaces ==
    [][SettingsStep => UNCHANGED <<canvas, originalImageObj>>]_vars

\* A stroke is active since its one painting operation, a brush dot of size
\* 20, the panel was reopened and the size set to 5: the dot is as it was
\* painted.
C16_Witness ==
    /\ isDrawing /\ nOps = 1
    /\ activeTool = "brush" /\ brushSize = 5
    /\ canvas # PaintImage
    /\ \E c \in BrushColors : canvas = StrokeLine(PaintImage, lastPos[1], lastPos[1], c, 20)
    /\ originalImageObj = PaintImage

\* Horizontal pointer positions the slider is asked about: the track spans
\* 40..190.
ClaimXs == -60..260

\* Every position asked about gives a value of 5..80.
SliderInRange == \A clientX \in ClaimXs : SliderValue(clientX, 5, 80) \in 5..80

\* C17: brushSize is an integer of 5..80 in every state, and a slider event
\* at any horizontal position, on the track or beyond its ends, sets a value
\* of 5..80.
C17_BrushSizeInRange ==
    /\ brushSize \in 5..80
    /\ SliderInRange

\* The slider was touched at or beyond its left end while the panel is open.
C17_Witness ==
    /\ SubToolBarShown
    /\ brushSize = 5

\* C18: a load of a file that is not an image changes neither surface, nor
\* the tool state, nor cropRect, and nothing is left in flight; the onload
\* of a file sets the canvas and the retained image to the decoded image in
\* one step; and the retained image is never replaced without the canvas.
C18_LoadAllOrNothing ==
    /\ [][(last'.op = "handleFileChange" /\ nReqs' = nReqs + 1 /\ Decode(last'.a[1]) = NoImage)
             => UNCHANGED <<canvas, originalImageObj, pendingImgs, activeTool, isSettingsOpen,
                            brushColor, brushSize, mosaicType, cropRect>>]_vars
    /\ [][(last'.op = "onload" /\ last'.a[1] = "file" /\ Len(pendingImgs') < Len(pendingImgs))
             => (canvas' = Decode("photo") /\ originalImageObj' = Decode("photo"))]_vars
    /\ [][originalImageObj' # originalImageObj => canvas' = originalImageObj']_vars
    /\ []((canvas = NoCanvas) = (originalImageObj = NoImage))

\* A file that is not an image was picked while a painted picture is shown:
\* the paint and the retained image are there and nothing is in flight.
C18_Witness ==
    /\ last.op = "handleFileChange" /\ last.a = <<"notes">>
    /\ nOps > 0
    /\ originalImageObj = Decode("photo")
    /\ canvas # originalImageObj
    /\ pendingImgs = <<>>

EdgePts == {Pt(24, 1), Pt(34, 1), Pt(40, 1), Pt(2, 4), Pt(2, 30), Pt(-10, 30), Pt(100, 100)}

\* The clamped sample rectangle of a mosaic operation at p has no area.
EmptySample(bmp, p, size, type) ==
    LET b == MosaicBounds(p.x, p.y, size, type, bmp.w, bmp.h)
    IN  b.sampleW <= 0 \/ b.sampleH <= 0

\* C20: a mosaic operation whose clamped sample rectangle has zero or
\* negative width or height leaves the canvas unchanged, in pixel and in
\* blur mode, at any point: for every canvas reached and every point asked
\* about, and for every mosaic operation the stroke engine runs.
C20_EmptySampleIsNoOp ==
    /\ [](\A p \in GridPts \cup EdgePts, size \in {5, 20, 80}, type \in {"pixel", "blur"} :
             EmptySample(canvas, p, size, type)
                 => applyMosaicEffect(canvas, p.x, p.y, size, type) = canvas)
    /\ [][(nOps' = nOps + 1 /\ activeTool = "mosaic"
             /\ EmptySample(canvas, lastPos'[1], brushSize, mosaicType))
              => canvas' = canvas]_vars

\* The one painting operation was a mosaic operation of size 5 at (40, 1),
\* beyond the right edge: the picture is untouched.
C20_Witness ==
    /\ nOps = 1
    /\ last.op = "draw" /\ last.a[1] = "mosaic" /\ last.a[2] = Pt(40, 1)
    /\ brushSize = 5
    /\ canvas = PaintImage

-----------------------------------------------------------------------------
(* The stroke engine's transitions.                                        *)

\* The canvas points the touches of TouchPts map to.
TouchMapped == {getCanvasCoordinates(ClientPt(p).x, ClientPt(p).y) : p \in TouchPts}

\* C21: brush and eraser operations are idempotent per call: applying the
\* same operation twice at the same point with the same tool settings leaves
\* the canvas as applying it once does.
C21_OperationIdempotent ==
    activeTool \in {"brush", "eraser"}
        => \A p \in TouchMapped :
               DrawOp(DrawOp(canvas, p, p), p, p) = DrawOp(canvas, p, p)

\* C22: a gesture-start while the tool is brush, mosaic or eraser takes the
\* engine from idle to stroking, sets lastPos to the mapped start point and
\* applies exactly one operation of the active tool at that point in the
\* same event; and the engine starts stroking in no other way.
C22_StartPaintsAtStartPoint ==
    /\ [][StartStep => /\ Paints
                       /\ isDrawing'
                       /\ lastPos' = <<last'.a[2]>>
                       /\ last'.a[2] \in TouchMapped
                       /\ canvas' = DrawOp(canvas, last'.a[2], last'.a[2])]_vars
    /\ [][(~isDrawing /\ isDrawing') => StartStep]_vars

\* After the stroke of the initial state ended, the brush was put down at
\* (12, 2) and not moved: the engine is stroking, lastPos is that point and
\* the picture has the dot.
C22_Witness ==
    /\ nOps = 1
    /\ last.op = "draw" /\ last.by = "startDrawing"
    /\ last.a[1] = "brush" /\ last.a[2] = Pt(12, 2)
    /\ isDrawing /\ lastPos = <<Pt(12, 2)>>
    /\ canvas = StrokeLine(TappedImage, Pt(12, 2), Pt(12, 2), <<255, 0, 0>>, 5)
    /\ canvas # TappedImage

\* A gesture-move that applied an operation.
MoveStep == nOps' = nOps + 1 /\ last'.op = "draw" /\ last'.by = "draw"

\* C23: each gesture-move while stroking applies the operation from the
\* current lastPos to the newly mapped point and then sets lastPos to that
\* point; while stroking, lastPos changes to nothing but the mapped point of
\* a move or a start, so the segment of a move starts where the move before
\* it ended.
C23_SegmentsContiguous ==
    /\ [][MoveStep => /\ isDrawing /\ isDrawing' /\ lastPos # NoPos
                      /\ lastPos' = <<last'.a[2]>>
                      /\ last'.a[2] \in TouchMapped
                      /\ canvas' = DrawOp(canvas, lastPos[1], last'.a[2])]_vars
    /\ [][(isDrawing /\ isDrawing' /\ lastPos' # lastPos)
             => /\ lastPos' # NoPos /\ lastPos'[1] \in TouchMapped
                /\ (Paints => MoveStep \/ StartStep)
                /\ (~Paints => canvas' = canvas)]_vars

\* Two moves of one brush stroke: from the start point (2, 1) to (12, 2) and
\* from there to (40, 1).
C23_Witness ==
    /\ nOps = 2
    /\ last.op = "draw" /\ last.by = "draw"
    /\ last.a = <<"brush", Pt(40, 1), "brush", Pt(12, 2)>>
    /\ isDrawing /\ lastPos = <<Pt(40, 1)>>
    /\ canvas = StrokeLine(StrokeLine(TappedImage, Pt(2, 1), Pt(12, 2), <<255, 0, 0>>, 5),
                           Pt(12, 2), Pt(40, 1), <<255, 0, 0>>, 5)

\* C24: each of gesture-end, gesture-cancel and pointer-leave received while
\* stroking returns the engine to idle and clears lastPos, so that a
\* gesture-move arriving afterwards, before a new gesture-start, does not
\* modify the canvas.
C24_EndCancelLeaveStopStroke ==
    /\ [][(isDrawing /\ ~isDrawing') => lastPos' = NoPos]_vars
    /\ [][(isDrawing /\ last'.op = "touchCancel") => (~isDrawing' /\ lastPos' = NoPos)]_vars
    /\ [][(last.op = "touchCancel" /\ ~StartStep) => canvas' = canvas]_vars

\* C25: a gesture-start while the tool is none or crop leaves the engine
\* idle, lastPos empty and the canvas unchanged, and a gesture-move while
\* idle leaves lastPos and the canvas unchanged.
C25_NonStrokeEventsChangeNothing ==
    /\ [](~isDrawing => lastPos = NoPos)
    /\ [][(~isDrawing /\ activeTool \in {"none", "crop"})
             => (~isDrawing' /\ lastPos' = NoPos /\ canvas' = canvas)]_vars
    /\ [][(~isDrawing /\ ~isDrawing') => (lastPos' = NoPos /\ canvas' = canvas)]_vars

\* Crop mode is on and the engine is idle, with a painting operation still
\* allowed by the bound: the picture is the one the last stroke left.
C25_Witness ==
    /\ activeTool = "crop"
    /\ ~isDrawing /\ lastPos = NoPos
    /\ nOps < MaxOps
    /\ canvas = TappedImage

-----------------------------------------------------------------------------
(* The crop overlay's drag sessions.                                       *)

\* C26: from the idle crop state all nine drag modes can be entered: a
\* pointer-down on the rectangle body starts a session in mode move, one on
\* an edge region or a corner handle a session in that edge's or corner's
\* mode.
C26_AllNineModesEnterable ==
    /\ [][PointerDownStep => (last'.a[1] \in HandleTypes /\ activeHandle' = last'.a[1])]_vars
    /\ [][(last'.op = "bodyPointerDown" /\ last' # last) => activeHandle' = "move"]_vars

\* A pointer-move that the overlay acted on.
EffectiveMoveStep == activeHandle # NoHandle /\ last'.op = "pointerMove" /\ last' # last

\* C27: once a drag session is started, its mode, anchorPointerPos and
\* anchorRect stay as snapshotted at pointer-down through every pointer-move
\* of the session, and the session stays active across the move.
C27_SessionSnapshotFixed ==
    [][EffectiveMoveStep => /\ activeHandle' = activeHandle
                            /\ startPos' = startPos
                            /\ startRect' = startRect]_vars

\* The rectangle the session recorded in the history gives for the pointer
\* position recorded with it.
SessionRect ==
    NewRect(last.sess.type, last.sess.rect,
            Percent(last.at.x - last.sess.pos[1].x, ContainerRect.width),
            Percent(last.at.y - last.sess.pos[1].y, ContainerRect.height))

\* C28: within one drag session the crop rectangle after a pointer-move
\* depends only on the mode, the anchor rectangle and the pointer's delta
\* from the anchor position, whatever moves came before it in the session;
\* at the anchor position it is the anchor rectangle.
C28_RectFromAnchorAndDelta ==
    (last.op \in {"pointerMove", "pointerMoveIgnored"} /\ last.sess # NoSession)
        => /\ cropRect = SessionRect
           /\ last.at = last.sess.pos[1] => cropRect = last.sess.rect

\* The spec's clamp.
Clamp(v, lo, hi) == Max(lo, Min(hi, v))

\* The rule of mode l on x, w and of mode t on y, h.
C29_Rule(sr, dX, dY) ==
    LET l == NewRect("l", sr, dX, dY)
        t == NewRect("t", sr, dX, dY)
        xNew == Clamp(sr.x + dX, 0, sr.x + sr.w - minSize)
        yNew == Clamp(sr.y + dY, 0, sr.y + sr.h - minSize)
    IN  /\ l = Rect(xNew, sr.y, sr.w - (xNew - sr.x), sr.h)
        /\ l.x + l.w = sr.x + sr.w
        /\ t = Rect(sr.x, yNew, sr.w, sr.h - (yNew - sr.y))
        /\ t.y + t.h = sr.y + sr.h

\* C29: in mode l the new left edge is clamp(anchor.x + dX, 0, anchor.x +
\* anchor.w - minSize) and the width shrinks by what the edge moved, so the
\* right edge stays and y, h are unchanged; mode t is the same rule on y, h
\* with dY.  For every rectangle the overlay reaches as an anchor and every
\* delta asked about, and for the l and t moves the overlay made.
C29_LeftTopRule ==
    /\ \A dX \in ClaimDeltas, dY \in ClaimDeltas : C29_Rule(cropRect, dX, dY)
    /\ (last.op = "pointerMove" /\ last.a[1] \in {"l", "t"})
          => /\ cropRect = SessionRect
             /\ cropRect.x + cropRect.w = last.a[2].x + last.a[2].w
             /\ cropRect.y + cropRect.h = last.a[2].y + last.a[2].h

\* The left edge of {10,10,50,50} was dragged right by 100: it stops
\* minSize short of the right edge.
C29_Witness ==
    /\ last.op = "pointerMove"
    /\ last.a = <<"l", Rect(10, 10, 50, 50)>>
    /\ cropRect = Rect(59, 10, 1, 50)

\* The rule of mode r on w and of mode b on h.
C30_Rule(sr, dX, dY) ==
    LET r == NewRect("r", sr, dX, dY)
        b == NewRect("b", sr, dX, dY)
    IN  /\ r = Rect(sr.x, sr.y, Clamp(sr.w + dX, minSize, 100 - sr.x), sr.h)
        /\ b = Rect(sr.x, sr.y, sr.w, Clamp(sr.h + dY, minSize, 100 - sr.y))

\* C30: in mode r the new width is clamp(anchor.w + dX, minSize, 100 -
\* anchor.x) with x, y and h unchanged; mode b is the same rule on h with dY
\* and the bound 100 - anchor.y.  For every rectangle the overlay reaches as
\* an anchor and every delta asked about, and for the r and b moves the
\* overlay made.
C30_RightBottomRule ==
    /\ \A dX \in ClaimDeltas, dY \in ClaimDeltas : C30_Rule(cropRect, dX, dY)
    /\ (last.op = "pointerMove" /\ last.a[1] \in {"r", "b"})
          => /\ cropRect = SessionRect
             /\ cropRect.x = last.a[2].x /\ cropRect.y = last.a[2].y
             /\ cropRect.w >= minSize /\ cropRect.h >= minSize

\* The bottom edge of {10,10,50,50} was dragged up by 100: the height stops
\* at minSize.
C30_Witness ==
    /\ last.op = "pointerMove"
    /\ last.a = <<"b", Rect(10, 10, 50, 50)>>
    /\ cropRect = Rect(10, 10, 50, 1)

\* C31: in mode move the rectangle is translated without resizing: x' =
\* clamp(anchor.x + dX, 0, 100 - anchor.w), y' = clamp(anchor.y + dY, 0,
\* 100 - anchor.h), w and h those of the anchor, after every pointer-move
\* that follows a pointer-down on the rectangle's body.
C31_MoveTranslates ==
    (last.op \in {"pointerMove", "pointerMoveIgnored"} /\ last.sess.type = "move")
        => LET sr == last.sess.rect
               dX == Percent(last.at.x - last.sess.pos[1].x, ContainerRect.width)
               dY == Percent(last.at.y - last.sess.pos[1].y, ContainerRect.height)
           IN  cropRect = Rect(Clamp(sr.x + dX, 0, 100 - sr.w),
                               Clamp(sr.y + dY, 0, 100 - sr.h), sr.w, sr.h)

\* C32: each of pointer-up, pointer-cancel and pointer-leave during a drag
\* session clears the session and leaves the crop rectangle as the last
\* pointer-move computed it, and pointer-moves after that, before a new
\* pointer-down, do not change the rectangle.
C32_ExitClearsSession ==
    /\ [][(last'.op \in {"pointerUp", "pointerLeave"} /\ last' # last)
             => (activeHandle' = NoHandle /\ startPos' = NoPos /\ cropRect' = cropRect)]_vars
    /\ [][last.op \in {"pointerUp", "pointerLeave"} => cropRect' = cropRect]_vars

-----------------------------------------------------------------------------
(* The obfuscation filter.                                                 *)

\* The sum of channel ch over the pixels of data at the positions in S.
RECURSIVE SumOver(_, _, _)
SumOver(data, S, ch) ==
    IF S = {} THEN 0
    ELSE LET n == CHOOSE n \in S : TRUE
         IN  data[n][ch] + SumOver(data, S \ {n}, ch)

\* The stride-4 average of a sample in row-major order: the pixels at the
\* indices 0, 4, 8, ... (positions 1, 5, 9, ... of the sequence).
Stride4Avg(data) ==
    LET S == {n \in 1..Len(data) : (n - 1) % 4 = 0}
    IN  <<SumOver(data, S, 1) \div Cardinality(S),
          SumOver(data, S, 2) \div Cardinality(S),
          SumOver(data, S, 3) \div Cardinality(S)>>

\* What an operation at p paints on bmp when its colour is the stride-4
\* average of its sample.
PaintedWithAvg(bmp, p, size, type) ==
    LET b == MosaicBounds(p.x, p.y, size, type, bmp.w, bmp.h)
        avg == Stride4Avg(ImageData(bmp, b.startX, b.startY, b.sampleW, b.sampleH))
    IN  IF type = "pixel" THEN FillRect(bmp, b.startX, b.startY, b.effectSize, avg)
        ELSE FillDisk(bmp, p.x, p.y, b.effectSize, avg)

\* Pictures whose samples are averaged: the 24 x 4 picture as loaded and with
\* a brush dot on it, and a 7 x 5 picture, whose samples have sizes that are
\* not multiples of four.
SamplePictures == {PaintImage, TappedImage, TestImage(7, 5)}

\* On those pictures, at every point and size asked about and in both
\* modes, the operation paints with the stride-4 average of its sample.
Stride4OnSamples ==
    \A bmp \in SamplePictures, p \in GridPts, size \in {1, 5, 20}, type \in {"pixel", "blur"} :
        ~EmptySample(bmp, p, size, type)
            => applyMosaicEffect(bmp, p.x, p.y, size, type) = PaintedWithAvg(bmp, p, size, type)

\* C33: the mosaic fill colour is the stride-4 average of the sample: each
\* of R, G, B is the floor of the channel's sum over the pixels at indices
\* 0, 4, 8, ... of the row-major sample, divided by their number; for the
\* samples of three pictures at every point and size asked about, and for
\* every mosaic operation the stroke engine runs.
C33_FillIsStride4Average ==
    /\ [](Stride4OnSamples)
    /\ [][(nOps' = nOps + 1 /\ activeTool = "mosaic"
             /\ ~EmptySample(canvas, lastPos'[1], brushSize, mosaicType))
              => canvas' = PaintedWithAvg(canvas, lastPos'[1], brushSize, mosaicType)]_vars

\* One mosaic operation in pixel mode at (2, 1) with brushSize 5 on the
\* picture as loaded: columns 1..20 carry the stride-4 average of the 20 x 4
\* sample, whose channel sums are not multiples of the count.
C33_Witness ==
    /\ nOps = 1
    /\ last.op = "draw" /\ last.a[1] = "mosaic" /\ last.a[2] = Pt(2, 1)
    /\ brushSize = 5 /\ mosaicType = "pixel"
    /\ canvas.px[1][1] = Opaque(Stride4Avg(ImageData(PaintImage, 0, 0, 20, 4)))
    /\ \E ch \in 1..3 :
           SumOver(ImageData(PaintImage, 0, 0, 20, 4), {n \in 1..80 : (n - 1) % 4 = 0}, ch) % 20 # 0

\* The sample rectangle of blur mode as the rule gives it.
BlurSampleRule(p, size, w, h) ==
    LET b == MosaicBounds(p.x, p.y, size, "blur", w, h)
    IN  /\ b.startX = Max(0, p.x - (4 * size) \div 2)
        /\ b.startY = Max(0, p.y - (4 * size) \div 2)
        /\ b.sampleW = Min(4 * size, w - b.startX)
        /\ b.sampleH = Min(4 * size, h - b.startY)

\* The rule at every point and size asked about, on three picture sizes.
BlurSamples ==
    \A p \in GridPts \cup EdgePts, size \in {1, 5, 20, 80}, wh \in {<<24, 4>>, <<7, 5>>, <<200, 100>>} :
        BlurSampleRule(p, size, wh[1], wh[2])

\* Pixel (i, j), the square [i-1, i] x [j-1, j], lies within the disc of
\* radius rad about p / has no point inside it.
InDisc(i, j, p, rad) ==
    \A qx \in {i - 1, i}, qy \in {j - 1, j} : Sq(qx - p.x) + Sq(qy - p.y) <= Sq(rad)

OffDisc(i, j, p, rad) ==
    Sq(Clamp(p.x, i - 1, i) - p.x) + Sq(Clamp(p.y, j - 1, j) - p.y) >= Sq(rad)

\* A step in which a painting operation of the mosaic tool in blur mode runs
\* on a sample that is not empty.
MosaicBlurStep ==
    /\ nOps' = nOps + 1 /\ activeTool = "mosaic" /\ mosaicType = "blur"
    /\ ~EmptySample(canvas, lastPos'[1], brushSize, "blur")

\* C34: in blur mode the sample origin is (x - effectSize/2, y -
\* effectSize/2) clamped to >= 0 and not snapped to the grid, the sample
\* size is min(effectSize, surface - start), and the operation sets the
\* pixels of the disc of radius effectSize/2 about (x, y) that lie on the
\* canvas to the averaged colour and leaves the pixels off the disc as they
\* were (the pixels the circle runs through are blended).
C34_BlurFillsDisc ==
    /\ [](BlurSamples)
    /\ [][MosaicBlurStep =>
             LET p == lastPos'[1]
                 b == MosaicBounds(p.x, p.y, brushSize, "blur", canvas.w, canvas.h)
             IN  /\ BlurSampleRule(p, brushSize, canvas.w, canvas.h)
                 /\ canvas'.w = canvas.w /\ canvas'.h = canvas.h
                 /\ \A avg \in {Stride4Avg(ImageData(canvas, b.startX, b.startY,
                                                      b.sampleW, b.sampleH))} :
                        \A j \in 1..canvas.h, i \in 1..canvas.w :
                            /\ InDisc(i, j, p, 2 * brushSize) => canvas'.px[j][i] = Opaque(avg)
                            /\ OffDisc(i, j, p, 2 * brushSize)
                                  => canvas'.px[j][i] = canvas.px[j][i]]_vars

\* One mosaic operation in blur mode at (12, 2) with brushSize 5 on the
\* picture as loaded: the sample starts at (2, 0), not at a multiple of 20;
\* the pixel at the centre carries its average, column 1 is off the disc and
\* as loaded.
C34_Witness ==
    /\ nOps = 1
    /\ last.op = "draw" /\ last.a = <<"mosaic", Pt(12, 2), "none", NoPos>>
    /\ brushSize = 5 /\ mosaicType = "blur"
    /\ MosaicBounds(12, 2, 5, "blur", 24, 4).startX = 2
    /\ canvas.px[2][12] = Opaque(Stride4Avg(ImageData(PaintImage, 2, 0, 20, 4)))
    /\ canvas.px[2][12] # PaintImage.px[2][12]
    /\ \A j \in 1..4 : canvas.px[j][1] = PaintImage.px[j][1]

-----------------------------------------------------------------------------
(* The coordinate mapper.                                                  *)

\* Display rectangles of a 24 x 4 buffer: at its natural size, shrunk to
\* half, enlarged to double, and at a size that divides neither way.
DisplayRects ==
    {[left |-> 10, top |-> 20, width |-> 24, height |-> 4],
     [left |-> 0,  top |-> 0,  width |-> 12, height |-> 2],
     [left |-> 5,  top |-> 7,  width |-> 48, height |-> 8],
     [left |-> 3,  top |-> 3,  width |-> 10, height |-> 3]}

MapXs == {-20, 0, 3, 5, 9, 10, 13, 22, 34, 58, 80}

MapYs == {-5, 0, 2, 3, 7, 20, 24, 30}

\* m is (clientX - left) * bufferW / width and (clientY - top) * bufferH /
\* height in whole pixels, and lies outside the buffer when the pointer is
\* outside the display rectangle.
MapRule(m, clientX, clientY, rect, bufferW, bufferH) ==
    /\ m.x * rect.width <= (clientX - rect.left) * bufferW
    /\ (clientX - rect.left) * bufferW < (m.x + 1) * rect.width
    /\ m.y * rect.height <= (clientY - rect.top) * bufferH
    /\ (clientY - rect.top) * bufferH < (m.y + 1) * rect.height
    /\ clientX < rect.left => m.x < 0
    /\ clientX >= rect.left + rect.width => m.x >= bufferW
    /\ clientY < rect.top => m.y < 0
    /\ clientY >= rect.top + rect.height => m.y >= bufferH

MapRuleOnInputs ==
    \A rect \in DisplayRects, clientX \in MapXs, clientY \in MapYs :
        MapRule(MapToBuffer(clientX, clientY, rect, 24, 4), clientX, clientY, rect, 24, 4)

\* C35: the coordinate mapper returns ((pointerX - left) * bufferWidth /
\* width, (pointerY - top) * bufferHeight / height) of the display
\* rectangle without clamping, so that a pointer outside the display
\* rectangle maps outside the buffer: for the display rectangles and
\* pointer positions asked about, and for the point every gesture-start and
\* gesture-move of the stroke engine records, which is the map of one of
\* the touches and is all these steps take from the mapper.
C35_MapperScalesWithoutClamping ==
    /\ [](MapRuleOnInputs)
    /\ [][(StartStep \/ MoveStep)
             => \E t \in TouchPts :
                    /\ lastPos' = <<getCanvasCoordinates(ClientPt(t).x, ClientPt(t).y)>>
                    /\ MapRule(lastPos'[1], ClientPt(t).x, ClientPt(t).y,
                               CanvasRect, canvas.w, canvas.h)]_vars

\* A stroke was started by a touch to the right of the picture: lastPos is
\* beyond the buffer's right edge.
C35_Witness ==
    /\ last.op = "draw" /\ last.by = "startDrawing"
    /\ isDrawing /\ lastPos = <<Pt(40, 1)>>
    /\ lastPos[1].x >= canvas.w

-----------------------------------------------------------------------------
(* Properties the stroke engine and the filter are expected to keep.       *)

\* C36: in every reachable state lastPos is set if and only if the stroke
\* engine is stroking (isDrawing is true).
C36_LastPosIffStroking == (lastPos # NoPos) <=> isDrawing

\* A stroke with a move in it was ended: the engine is idle and lastPos is
\* empty.
C36_Witness ==
    /\ ~isDrawing /\ lastPos = NoPos
    /\ nOps = 2
    /\ last.op = "draw" /\ last.by = "draw"

\* C37: whenever the stroke engine is stroking, activeTool is one of brush,
\* mosaic, eraser.
C37_StrokingHasPaintingTool == isDrawing => activeTool \in {"brush", "mosaic", "eraser"}

\* The sample rectangle of an operation at p lies inside a w x h surface.
SampleInside(p, size, type, w, h) ==
    LET b == MosaicBounds(p.x, p.y, size, type, w, h)
    IN  (b.sampleW > 0 /\ b.sampleH > 0)
            => /\ b.startX >= 0 /\ b.startY >= 0
               /\ b.startX + b.sampleW <= w
               /\ b.startY + b.sampleH <= h

\* At every point and size asked about, in both modes, on three surfaces.
SamplesInside ==
    \A p \in GridPts \cup EdgePts, size \in {5, 6, 20, 79, 80}, type \in {"pixel", "blur"},
       wh \in {<<24, 4>>, <<7, 5>>, <<200, 100>>} :
        SampleInside(p, size, type, wh[1], wh[2])

\* C38: whenever the obfuscation filter reads pixels, the sample rectangle
\* lies entirely inside the surface: startX >= 0, startY >= 0, startX +
\* sampleW <= width and startY + sampleH <= height, for points on and off
\* the surface, brush sizes of the slider's range and both modes, and for
\* every mosaic operation the stroke engine runs.
C38_SampleInsideSurface ==
    /\ [](SamplesInside)
    /\ [][(nOps' = nOps + 1 /\ activeTool = "mosaic")
             => SampleInside(lastPos'[1], brushSize, mosaicType, canvas.w, canvas.h)]_vars

\* One mosaic operation in blur mode at (22, 3) with brushSize 5: the sample
\* starts at column 12 and is cut at the right edge, 12 wide instead of 20.
C38_Witness ==
    /\ nOps = 1
    /\ last.op = "draw" /\ last.a = <<"mosaic", Pt(22, 3), "none", NoPos>>
    /\ brushSize = 5 /\ mosaicType = "blur"
    /\ MosaicBounds(22, 3, 5, "blur", canvas.w, canvas.h).startX = 12
    /\ MosaicBounds(22, 3, 5, "blur", canvas.w, canvas.h).sampleW = 12
    /\ canvas # PaintImage

\* Applying the filter in pixel mode at q to a bitmap already filtered at p
\* changes nothing.
Refilter(bmp, p, q, size) ==
    applyMosaicEffect(applyMosaicEffect(bmp, p.x, p.y, size, "pixel"), q.x, q.y, size, "pixel")
        = applyMosaicEffect(bmp, p.x, p.y, size, "pixel")

\* On the sample pictures, at every pair of points of one grid cell.
RefilterOnSamples ==
    \A bmp \in SamplePictures, size \in {1, 5}, p \in GridPts, q \in GridPts :
        SameCell(p, q, 4 * size) => Refilter(bmp, p, q, size)

\* C39: mosaic pixel mode is idempotent: applying the filter twice at the
\* same point with the same brushSize, or at two points of the same grid
\* cell, leaves the canvas as applying it once does: on the sample
\* pictures, and after every pixel-mode operation the stroke engine runs.
C39_PixelModeIdempotent ==
    /\ [](RefilterOnSamples)
    /\ [][MosaicPixelStep =>
             \A q \in GridPts :
                 SameCell(lastPos'[1], q, 4 * brushSize)
                     => applyMosaicEffect(canvas', q.x, q.y, brushSize, "pixel") = canvas']_vars

\* Two pixel-mode operations in a row at (2, 1) with brushSize 5: the canvas
\* is what one operation on the loaded picture gives, and differs from the
\* picture.
C39_Witness ==
    /\ nOps = 2
    /\ last.op = "draw" /\ last.a = <<"mosaic", Pt(2, 1), "mosaic", Pt(2, 1)>>
    /\ brushSize = 5 /\ mosaicType = "pixel"
    /\ canvas = applyMosaicEffect(PaintImage, 2, 1, 5, "pixel")
    /\ canvas # PaintImage

====
